---- MODULE Spec2Model ----
(***************************************************************************)
(* A model of the path-based layered state database (package pathdb): the  *)
(* disk layer with its node buffer, the chain of diff layers on top of it, *)
(* commit / persist / revert, the journal, and the readers built on it.    *)
(***************************************************************************)
EXTENDS Integers, Sequences, FiniteSets, TLC

(***************************************************************************)
(* Bounds of the model.                                                    *)
(***************************************************************************)
\* Number of layer objects (disk and diff) the heap holds at a time.
MaxLayers == 5
\* Number of diff layers the driver keeps in the layer tree.
MaxDiffs == 2
\* Largest state id a layer may carry.
MaxId == 2
\* Memory allowance of the node buffer (nodebuffer.limit), in bytes.
BufferLimit == 12
\* The non-zero setting of config.StateHistory: the number of most recent
\* state histories to keep (zero keeps all of them).
StateHistory == 1

\* config.CleanCacheSize as set by PathDefaults: no clean cache is allocated.
CleanCacheSize == 0

(***************************************************************************)
(* The world state a block executes on, and the authenticated trie that    *)
(* commits to it.  Both belong to external collaborators (the chain driver *)
(* and the trie library); a small deterministic trie stands for them:      *)
(* one storage node per contract, one leaf per account, one root node.     *)
(***************************************************************************)
Addrs == {1, 2}

Slots == {1}

Bals == {1}

SlotVals == {1}

\* World states: an absent account (balance 0) owns no storage.
Worlds ==
    {w \in [bal : [Addrs -> Bals \cup {0}], slot : [Addrs \X Slots -> SlotVals \cup {0}]] :
        \A a \in Addrs : w.bal[a] = 0 => \A s \in Slots : w.slot[<<a, s>>] = 0}

EmptyWorld == [bal |-> [a \in Addrs |-> 0], slot |-> [k \in Addrs \X Slots |-> 0]]

\* common.Hash{}: the hash of a deleted node and the owner of the account trie.
ZeroHash == << >>

\* types.EmptyRootHash: the root of an empty trie.
EmptyRootHash == <<98>>

\* hasher.hash: an injective stand-in for keccak256 over node blobs.
Hash(blob) == <<99>> \o blob

\* crypto.HashData over an address: a stand-in that reverses the order of the addresses.
AddrHash(a) == <<Cardinality(Addrs) + 1 - a>>

AddrOfHash(h) == CHOOSE a \in Addrs : AddrHash(a) = h

\* The hash of a storage slot key.
SlotHash(s) == <<Cardinality(Addrs) + s>>

SlotOfHash(h) == CHOOSE s \in Slots : SlotHash(s) = h

\* Key of the flat storage table: accountHash ++ storageHash.
StorageKey(a, s) == AddrHash(a) \o SlotHash(s)

\* Keys of the node index: <<owner, path>>.
AccountRootKey == <<ZeroHash, << >> >>

AccountLeafKey(a) == <<ZeroHash, AddrHash(a)>>

StorageNodeKey(a) == <<AddrHash(a), << >> >>

NodeKeys == {AccountRootKey} \cup {AccountLeafKey(a) : a \in Addrs} \cup {StorageNodeKey(a) : a \in Addrs}

\* Encoding of a slot value: an absent slot is the empty blob.
SlotBlob(v) == IF v = 0 THEN << >> ELSE <<v>>

SlotValue(blob) == IF blob = << >> THEN 0 ELSE blob[1]

HasStorage(w, a) == \E s \in Slots : w.slot[<<a, s>>] # 0

\* The single node of a storage trie: the slot values in slot order.
StorageBlob(w, a) == IF HasStorage(w, a) THEN [i \in 1..Cardinality(Slots) |-> w.slot[<<a, i>>]] ELSE << >>

RootOfBlob(blob) == IF blob = << >> THEN EmptyRootHash ELSE Hash(blob)

\* types.SlimAccountRLP: the empty storage root is omitted.
SlimAccount(bal, root) == IF root = EmptyRootHash THEN <<bal>> ELSE <<bal>> \o root

\* types.FullAccount: decode the slim form, restoring an omitted root.
FullAccount(slim) == IF Len(slim) = 1 THEN slim \o EmptyRootHash ELSE slim

\* The storage root recorded in a full account blob.
AccountRoot(full) == SubSeq(full, 2, Len(full))

\* The account leaf: the full RLP of the account, empty when the account is absent.
LeafBlob(w, a) == IF w.bal[a] = 0 THEN << >> ELSE <<w.bal[a]>> \o RootOfBlob(StorageBlob(w, a))

\* The flat-table form of an account: slim RLP, empty when the account is absent.
AccountBlob(w, a) == IF w.bal[a] = 0 THEN << >> ELSE SlimAccount(w.bal[a], RootOfBlob(StorageBlob(w, a)))

\* The root node of the account trie built from the leaves 1..n.
RECURSIVE RootBlobOf(_, _)
RootBlobOf(leaves, n) ==
    IF n = 0 THEN << >>
    ELSE RootBlobOf(leaves, n - 1) \o (IF leaves[n] = << >> THEN << >> ELSE <<n>> \o Hash(leaves[n]))

TrieBlob(w, k) ==
    IF k = AccountRootKey THEN RootBlobOf([a \in Addrs |-> LeafBlob(w, a)], Cardinality(Addrs))
    ELSE IF k[1] = ZeroHash THEN LeafBlob(w, AddrOfHash(k[2]))
    ELSE StorageBlob(w, AddrOfHash(k[1]))

StateRoot(w) == RootOfBlob(TrieBlob(w, AccountRootKey))

(***************************************************************************)
(* trienode.Node                                                           *)
(***************************************************************************)
NewNode(blob) == [hash |-> Hash(blob), blob |-> blob]

NewDeleted == [hash |-> ZeroHash, blob |-> << >>]

IsDeleted(n) == Len(n.blob) = 0

NodeOfBlob(blob) == IF Len(blob) > 0 THEN NewNode(blob) ELSE NewDeleted

EmptyMap == [k \in {} |-> 0]

\* Go's map assignment in a loop: every entry of m2 overwrites m1.
Merge(m1, m2) == [k \in DOMAIN m1 \cup DOMAIN m2 |-> IF k \in DOMAIN m2 THEN m2[k] ELSE m1[k]]

\* Writing a batch of blobs into a table: an empty blob deletes the key.
WriteBlobs(table, blobs) ==
    LET del == {k \in DOMAIN blobs : Len(blobs[k]) = 0}
        put == DOMAIN blobs \ del
    IN [k \in (DOMAIN table \ del) \cup put |-> IF k \in put THEN blobs[k] ELSE table[k]]

(***************************************************************************)
(* What the execution engine hands to update for a transition w -> w2.     *)
(***************************************************************************)
DirtyNodes(w, w2) ==
    [k \in {q \in NodeKeys : TrieBlob(w, q) # TrieBlob(w2, q)} |-> NodeOfBlob(TrieBlob(w2, k))]

ChangedAddrs(w, w2) == {a \in Addrs : AccountBlob(w, a) # AccountBlob(w2, a)}

ChangedSlots(w, w2) == {k \in Addrs \X Slots : w.slot[k] # w2.slot[k]}

\* StateSetWithOrigin: post values keyed by hash, original values keyed by address
\* (accounts) and by address ++ slot hash (storage slots).
StateSet(w, w2) ==
    [accounts |-> [h \in {AddrHash(a) : a \in ChangedAddrs(w, w2)} |-> AccountBlob(w2, AddrOfHash(h))],
     storages |-> [h \in {StorageKey(k[1], k[2]) : k \in ChangedSlots(w, w2)} |->
                     SlotBlob(w2.slot[<<AddrOfHash(<<h[1]>>), SlotOfHash(<<h[2]>>)>>])],
     accountOrigin |-> [a \in ChangedAddrs(w, w2) |-> AccountBlob(w, a)],
     storageOrigin |-> [k \in {<<c[1]>> \o SlotHash(c[2]) : c \in ChangedSlots(w, w2)} |->
                          SlotBlob(w.slot[<<k[1], SlotOfHash(<<k[2]>>)>>])]]

(***************************************************************************)
(* State of the program.                                                   *)
(***************************************************************************)
VARIABLES
    layers,     \* heap of layer objects: ref -> diskLayer / diffLayer record
    disk,       \* ref of the disk layer at the bottom of the driver's layer tree
    buffer,     \* the node buffer object shared by successive disk layers
    diskdb,     \* the key-value store
    freezer,    \* the state-history freezer: records tail+1 .. tail+Len(items)
    generator,  \* the snapshot generator linked to the disk layer
    status,     \* "running", "closed" after journaling, "panic" after a panic
    lastErr,    \* error returned by the most recent operation ("" is nil)
    trail,      \* the store and buffer as they were before each commit not yet reverted
    reverted,   \* the trail entry popped by the revert that has just completed
    obs,        \* what the most recent read was asked and what it returned
    reader,     \* the state readers of core/state: their backends, caches and call log
    conc,       \* the goroutines of the concurrent runs: readers and the one writer
    hist,       \* a state history, the byte streams it is stored as and their decoding
    gen,        \* the run of the snapshot generator: its batch, its markers, its position
    pruner      \* the offline pruner: the hash-keyed store, the bloom filter, the progress

vars == <<layers, disk, buffer, diskdb, freezer, generator, status, lastErr, trail, reverted,
          obs, reader, conc, hist, gen, pruner>>

Refs == 1..MaxLayers

NoRef == 0

\* A slot of the heap that holds no layer.
FreeLayer ==
    [kind |-> "free", root |-> << >>, id |-> 0, block |-> 0, parent |-> NoRef,
     nodes |-> EmptyMap, accounts |-> EmptyMap, storages |-> EmptyMap,
     accountOrigin |-> EmptyMap, storageOrigin |-> EmptyMap, stale |-> FALSE]

\* newDiskLayer: the buffer and the generator are the shared objects above; the
\* clean cache stays nil because config.CleanCacheSize is zero.
newDiskLayer(root, id) ==
    [FreeLayer EXCEPT !.kind = "disk", !.root = root, !.id = id]

\* newDiffLayer: the fields are taken as given, the id included.
newDiffLayer(parent, root, id, block, nodes, states) ==
    [FreeLayer EXCEPT !.kind = "diff", !.root = root, !.id = id, !.block = block,
                      !.parent = parent, !.nodes = nodes,
                      !.accounts = states.accounts, !.storages = states.storages,
                      !.accountOrigin = states.accountOrigin,
                      !.storageOrigin = states.storageOrigin]

\* diskLayer.update and diffLayer.update: a new diff layer on top of `parent`.
update(parent, root, id, block, nodes, states) ==
    newDiffLayer(parent, root, id, block, nodes, states)

\* The memory an operation works on, and the three ways it can end.
Mem == [layers |-> layers, buffer |-> buffer, diskdb |-> diskdb, freezer |-> freezer,
        generator |-> generator, trail |-> trail]

Ok(m, ret) == [m |-> m, ret |-> ret, err |-> "", panic |-> FALSE]

Fail(m, err) == [m |-> m, ret |-> NoRef, err |-> err, panic |-> FALSE]

Panic(m) == [m |-> m, ret |-> NoRef, err |-> "", panic |-> TRUE]

\* The allocator hands out the lowest unused slot.
NewRef(m) == CHOOSE r \in Refs : m.layers[r].kind = "free" /\ \A q \in 1..(r - 1) : m.layers[q].kind # "free"

(***************************************************************************)
(* The generator's progress marker.  A nil marker (generation complete) is *)
(* distinct from the empty marker (nothing covered yet).                   *)
(***************************************************************************)
NoGenerator == [linked |-> FALSE, done |-> TRUE, marker |-> << >>, root |-> << >>]

NilMarker == [nil |-> TRUE, key |-> << >>]

\* bytes.Compare: unsigned lexicographic order; -1, 0 or 1.
RECURSIVE BytesCompare(_, _)
BytesCompare(a, b) ==
    IF a = << >> /\ b = << >> THEN 0
    ELSE IF a = << >> THEN -1
    ELSE IF b = << >> THEN 1
    ELSE IF Head(a) < Head(b) THEN -1
    ELSE IF Head(a) > Head(b) THEN 1
    ELSE BytesCompare(Tail(a), Tail(b))

\* generator.progressMarker
progressMarker(g) == IF g.done THEN NilMarker ELSE [nil |-> FALSE, key |-> g.marker]

\* diskLayer.genMarker: nil when no generator is linked or generation is done.
genMarker(m) == IF ~m.generator.linked THEN NilMarker ELSE progressMarker(m.generator)

(***************************************************************************)
(* Reads.  A result is [blob, hash, err]; err "" is nil.                   *)
(***************************************************************************)
errSnapshotStale == "layer stale"

errNotCoveredYet == "not covered yet"

errUnexpectedHistory == "unexpected state history"

errStateUnrecoverable == "state is unrecoverable"

Lookup(table, key) == IF key \in DOMAIN table THEN table[key] ELSE << >>

\* rawdb.ReadAccountTrieNode / ReadStorageTrieNode: nil when the key is absent.
ReadTrieNode(db, key) == Lookup(db.nodes, key)

\* rawdb.ReadAccountSnapshot
ReadAccountSnapshot(db, hash) == Lookup(db.accounts, hash)

\* rawdb.ReadStorageSnapshot
ReadStorageSnapshot(db, key) == Lookup(db.storages, key)

\* rawdb.ReadPersistentStateID
ReadPersistentStateID(db) == db.pid

\* rawdb.WriteStateID
WriteStateID(db, root, id) == [db EXCEPT !.stateIDs = Merge(@, [r \in {root} |-> id])]

\* rawdb.DeleteStateID, for every root of a set.
DeleteStateIDs(db, roots) == [db EXCEPT !.stateIDs = [r \in DOMAIN @ \ roots |-> @[r]]]

\* A faulty diskLayer.node that does not look into the buffer.
diskNodeStoreOnly(m, dl, key) ==
    IF m.layers[dl].stale THEN [blob |-> << >>, hash |-> ZeroHash, err |-> errSnapshotStale]
    ELSE [blob |-> ReadTrieNode(m.diskdb, key), hash |-> Hash(ReadTrieNode(m.diskdb, key)), err |-> ""]

\* diskLayer.node
diskNode(m, dl, key) ==
    IF m.layers[dl].stale THEN [blob |-> << >>, hash |-> ZeroHash, err |-> errSnapshotStale]
    ELSE IF key \in DOMAIN m.buffer.nodes
         THEN [blob |-> m.buffer.nodes[key].blob, hash |-> m.buffer.nodes[key].hash, err |-> ""]
    ELSE [blob |-> ReadTrieNode(m.diskdb, key), hash |-> Hash(ReadTrieNode(m.diskdb, key)), err |-> ""]

\* A faulty diskLayer.account: the key at the marker counts as not covered.
diskAccountGe(m, dl, hash) ==
    IF m.layers[dl].stale THEN [blob |-> << >>, err |-> errSnapshotStale]
    ELSE IF hash \in DOMAIN m.buffer.accounts THEN [blob |-> m.buffer.accounts[hash], err |-> ""]
    ELSE IF ~genMarker(m).nil /\ BytesCompare(hash, genMarker(m).key) >= 0
         THEN [blob |-> << >>, err |-> errNotCoveredYet]
    ELSE [blob |-> ReadAccountSnapshot(m.diskdb, hash), err |-> ""]

\* diskLayer.account
diskAccount(m, dl, hash) ==
    IF m.layers[dl].stale THEN [blob |-> << >>, err |-> errSnapshotStale]
    ELSE IF hash \in DOMAIN m.buffer.accounts THEN [blob |-> m.buffer.accounts[hash], err |-> ""]
    ELSE IF ~genMarker(m).nil /\ BytesCompare(hash, genMarker(m).key) > 0
         THEN [blob |-> << >>, err |-> errNotCoveredYet]
    ELSE [blob |-> ReadAccountSnapshot(m.diskdb, hash), err |-> ""]

\* diskLayer.storage: the key is accountHash ++ storageHash.
diskStorage(m, dl, key) ==
    IF m.layers[dl].stale THEN [blob |-> << >>, err |-> errSnapshotStale]
    ELSE IF key \in DOMAIN m.buffer.storages THEN [blob |-> m.buffer.storages[key], err |-> ""]
    ELSE IF ~genMarker(m).nil /\ BytesCompare(key, genMarker(m).key) > 0
         THEN [blob |-> << >>, err |-> errNotCoveredYet]
    ELSE [blob |-> ReadStorageSnapshot(m.diskdb, key), err |-> ""]

\* A faulty diffLayer.node: the parent is asked first, the local entry only
\* answers when no layer below holds the key.
RECURSIVE nodeParentFirst(_, _, _)
nodeParentFirst(m, l, key) ==
    IF m.layers[l].kind = "disk" THEN diskNode(m, l, key)
    ELSE IF \/ nodeParentFirst(m, m.layers[l].parent, key).err # ""
            \/ Len(nodeParentFirst(m, m.layers[l].parent, key).blob) > 0
            \/ key \notin DOMAIN m.layers[l].nodes
         THEN nodeParentFirst(m, m.layers[l].parent, key)
    ELSE [blob |-> m.layers[l].nodes[key].blob, hash |-> m.layers[l].nodes[key].hash, err |-> ""]

\* diffLayer.node: the local entry if there is one, else the parent's answer.
RECURSIVE node(_, _, _)
node(m, l, key) ==
    IF m.layers[l].kind = "disk" THEN diskNode(m, l, key)
    ELSE IF key \in DOMAIN m.layers[l].nodes
         THEN [blob |-> m.layers[l].nodes[key].blob, hash |-> m.layers[l].nodes[key].hash, err |-> ""]
    ELSE node(m, m.layers[l].parent, key)

\* diffLayer.account
RECURSIVE account(_, _, _)
account(m, l, hash) ==
    IF m.layers[l].kind = "disk" THEN diskAccount(m, l, hash)
    ELSE IF hash \in DOMAIN m.layers[l].accounts THEN [blob |-> m.layers[l].accounts[hash], err |-> ""]
    ELSE account(m, m.layers[l].parent, hash)

\* diffLayer.storage
RECURSIVE storage(_, _, _)
storage(m, l, key) ==
    IF m.layers[l].kind = "disk" THEN diskStorage(m, l, key)
    ELSE IF key \in DOMAIN m.layers[l].storages THEN [blob |-> m.layers[l].storages[key], err |-> ""]
    ELSE storage(m, m.layers[l].parent, key)

(***************************************************************************)
(* Node reads of the revision that takes the expected hash of the node.    *)
(***************************************************************************)
errUnexpectedNode == "unexpected node"

\* rawdb.ReadAccountTrieNode / ReadStorageTrieNode returning the blob and its
\* hash: the zero hash when the key is absent.
ReadTrieNodeHashed(db, key) ==
    IF key \in DOMAIN db.nodes THEN [blob |-> db.nodes[key], hash |-> Hash(db.nodes[key])]
    ELSE [blob |-> << >>, hash |-> ZeroHash]

\* nodebuffer.node: a buffered node must carry the expected hash.
bufferNode(b, key, hash) ==
    IF key \notin DOMAIN b.nodes THEN [found |-> FALSE, blob |-> << >>, err |-> ""]
    ELSE IF b.nodes[key].hash # hash THEN [found |-> FALSE, blob |-> << >>, err |-> errUnexpectedNode]
    ELSE [found |-> TRUE, blob |-> b.nodes[key].blob, err |-> ""]

diskNodeStored(stored, hash) ==
    IF stored.hash # hash THEN [blob |-> << >>, err |-> errUnexpectedNode]
    ELSE [blob |-> stored.blob, err |-> ""]

diskNodeBuffered(m, bn, key, hash) ==
    IF bn.err # "" THEN [blob |-> << >>, err |-> bn.err]
    ELSE IF bn.found THEN [blob |-> bn.blob, err |-> ""]
    ELSE diskNodeStored(ReadTrieNodeHashed(m.diskdb, key), hash)

\* diskLayer.Node(owner, path, hash)
diskNodeHashed(m, dl, key, hash) ==
    IF m.layers[dl].stale THEN [blob |-> << >>, err |-> errSnapshotStale]
    ELSE diskNodeBuffered(m, bufferNode(m.buffer, key, hash), key, hash)

\* diffLayer.node(owner, path, hash, depth)
RECURSIVE nodeHashed(_, _, _, _)
nodeHashed(m, l, key, hash) ==
    IF m.layers[l].kind = "disk" THEN diskNodeHashed(m, l, key, hash)
    ELSE IF key \in DOMAIN m.layers[l].nodes
         THEN IF m.layers[l].nodes[key].hash # hash THEN [blob |-> << >>, err |-> errUnexpectedNode]
              ELSE [blob |-> m.layers[l].nodes[key].blob, err |-> ""]
    ELSE nodeHashed(m, m.layers[l].parent, key, hash)

\* Reader.Node
ReaderNode(m, l, key, hash) == nodeHashed(m, l, key, hash)

(***************************************************************************)
(* The node buffer.                                                        *)
(***************************************************************************)
RECURSIVE Sum(_, _)
Sum(f, S) == IF S = {} THEN 0 ELSE LET x == CHOOSE y \in S : TRUE IN f[x] + Sum(f, S \ {x})

\* newNodeBuffer: the size is recomputed from the nodes handed in.
newNodeBuffer(nodes, nlayers) ==
    [layers |-> nlayers, nodes |-> nodes,
     size |-> Sum([k \in DOMAIN nodes |-> Len(nodes[k].blob) + Len(k[2])], DOMAIN nodes),
     accounts |-> EmptyMap, storages |-> EmptyMap]

\* A faulty updateSize that never takes anything off the size.
updateSizeGrowOnly(size, delta) == IF delta > 0 THEN size + delta ELSE size

\* nodebuffer.updateSize
updateSize(size, delta) == IF size + delta >= 0 THEN size + delta ELSE 0

\* nodebuffer.reset
reset(b) == [b EXCEPT !.layers = 0, !.size = 0, !.nodes = EmptyMap,
                      !.accounts = EmptyMap, !.storages = EmptyMap]

\* nodebuffer.empty
empty(b) == b.layers = 0

\* buffer.full
full(b) == b.size > BufferLimit

\* A faulty nodebuffer.commit: the merged transition is not counted in layers.
bufferCommitNoCount(b, nodes, accounts, storages) ==
    [b EXCEPT !.nodes = Merge(@, nodes), !.accounts = Merge(@, accounts), !.storages = Merge(@, storages)]

\* nodebuffer.commit: merge the nodes (and the flat states) of a diff layer.
bufferCommit(b, nodes, accounts, storages) ==
    LET delta == Sum([k \in DOMAIN nodes |->
                        IF k \in DOMAIN b.nodes
                        THEN Len(nodes[k].blob) - Len(b.nodes[k].blob)
                        ELSE Len(nodes[k].blob) + Len(k[2])], DOMAIN nodes)
    IN [b EXCEPT !.nodes = Merge(@, nodes), !.size = updateSize(@, delta), !.layers = @ + 1,
                 !.accounts = Merge(@, accounts), !.storages = Merge(@, storages)]

\* A faulty nodebuffer.revert: the layer is uncounted but its entries stay.
bufferRevertNoUndo(b, nodes, accounts, storages) ==
    IF b.layers = 0 THEN [b |-> b, err |-> errStateUnrecoverable, panic |-> FALSE]
    ELSE [b |-> [b EXCEPT !.layers = @ - 1], err |-> "", panic |-> FALSE]

\* nodebuffer.revert: the reverse of commit; every reverted entry must be present.
bufferRevert(b, nodes, accounts, storages) ==
    IF b.layers = 0 THEN [b |-> b, err |-> errStateUnrecoverable, panic |-> FALSE]
    ELSE IF b.layers - 1 = 0 THEN [b |-> reset(b), err |-> "", panic |-> FALSE]
    ELSE IF \/ \E k \in DOMAIN nodes : k \notin DOMAIN b.nodes
            \/ \E h \in DOMAIN accounts : h \notin DOMAIN b.accounts
            \/ \E h \in DOMAIN storages : h \notin DOMAIN b.storages
         THEN [b |-> [b EXCEPT !.layers = @ - 1], err |-> "", panic |-> TRUE]
    ELSE LET delta == Sum([k \in DOMAIN nodes |->
                             IF Len(nodes[k].blob) = 0 THEN 0 - Len(b.nodes[k].blob)
                             ELSE Len(nodes[k].blob) - Len(b.nodes[k].blob)], DOMAIN nodes)
         IN [b |-> [b EXCEPT !.layers = @ - 1,
                             !.nodes = Merge(@, [k \in DOMAIN nodes |-> NodeOfBlob(nodes[k].blob)]),
                             !.size = updateSize(@, delta),
                             !.accounts = Merge(@, accounts), !.storages = Merge(@, storages)],
             err |-> "", panic |-> FALSE]

\* A faulty writeNodes: the key of a deleted node is left in the table.
writeNodesKeep(table, nodes) ==
    [k \in DOMAIN table \cup {q \in DOMAIN nodes : ~IsDeleted(nodes[q])} |->
        IF k \in DOMAIN nodes /\ ~IsDeleted(nodes[k]) THEN nodes[k].blob ELSE table[k]]

\* writeNodes: deleted nodes remove their key, the others are written under it.
writeNodes(table, nodes) ==
    LET del == {k \in DOMAIN nodes : IsDeleted(nodes[k])}
        put == DOMAIN nodes \ del
    IN [k \in (DOMAIN table \ del) \cup put |-> IF k \in put THEN nodes[k].blob ELSE table[k]]

\* writeStates: flat entries beyond the generator's progress marker are left out.
Covered(progress, key) == progress.nil \/ BytesCompare(key, progress.key) <= 0

writeStates(db, progress, accounts, storages) ==
    [db EXCEPT !.accounts = WriteBlobs(@, [h \in {x \in DOMAIN accounts : Covered(progress, x)} |-> accounts[h]]),
               !.storages = WriteBlobs(@, [h \in {x \in DOMAIN storages : Covered(progress, x)} |-> storages[h]])]

\* A faulty flush: the persistent state id is left out of the batch.
flushNoId(m, root, progress, id) ==
    [m |-> [m EXCEPT !.diskdb = [writeStates(@, progress, m.buffer.accounts, m.buffer.storages)
                                    EXCEPT !.nodes = writeNodes(@, m.buffer.nodes), !.snapRoot = root],
                     !.buffer = reset(@)],
     err |-> ""]

\* nodebuffer.flush, once commit has decided to flush: one atomic batch.
flush(m, root, progress, id) ==
    IF ReadPersistentStateID(m.diskdb) + m.buffer.layers # id
    THEN [m |-> m, err |-> "buffer has invalid state id"]
    ELSE [m |-> [m EXCEPT !.diskdb = [writeStates(@, progress, m.buffer.accounts, m.buffer.storages)
                                         EXCEPT !.nodes = writeNodes(@, m.buffer.nodes),
                                                !.pid = id, !.snapRoot = root],
                          !.buffer = reset(@)],
          err |-> ""]

(***************************************************************************)
(* State histories in the freezer.                                         *)
(***************************************************************************)
\* Write: the freezer appends a record only at its head; the outcome of the
\* append is not inspected.
writeHistory(fr, parentRoot, bottom) ==
    IF bottom.id - 1 = fr.tail + Len(fr.items)
    THEN [fr EXCEPT !.items = Append(@, [parent |-> parentRoot, root |-> bottom.root, block |-> bottom.block,
                                         accounts |-> bottom.accountOrigin, storages |-> bottom.storageOrigin])]
    ELSE fr

\* Read
readHistory(fr, id) ==
    IF id > fr.tail /\ id <= fr.tail + Len(fr.items)
    THEN [h |-> fr.items[id - fr.tail], err |-> ""]
    ELSE [h |-> << >>, err |-> "state history not found"]

\* A faulty TruncateHead: the lookups of the removed histories are left behind.
truncateFromHeadKeepIDs(db, fr, nhead) ==
    LET ohead == fr.tail + Len(fr.items) IN
    IF ohead < nhead \/ nhead < fr.tail THEN [db |-> db, fr |-> fr, n |-> 0, err |-> "out of range"]
    ELSE IF ohead = nhead THEN [db |-> db, fr |-> fr, n |-> 0, err |-> ""]
    ELSE [db |-> db, fr |-> [fr EXCEPT !.items = SubSeq(@, 1, nhead - fr.tail)], n |-> ohead - nhead, err |-> ""]

\* TruncateHead; n is the number of histories removed.
truncateFromHead(db, fr, nhead) ==
    LET ohead == fr.tail + Len(fr.items) IN
    IF ohead < nhead \/ nhead < fr.tail THEN [db |-> db, fr |-> fr, n |-> 0, err |-> "out of range"]
    ELSE IF ohead = nhead THEN [db |-> db, fr |-> fr, n |-> 0, err |-> ""]
    ELSE [db |-> DeleteStateIDs(db, {fr.items[i].root : i \in (nhead - fr.tail + 1)..Len(fr.items)}),
          fr |-> [fr EXCEPT !.items = SubSeq(@, 1, nhead - fr.tail)], n |-> ohead - nhead, err |-> ""]

\* A faulty TruncateTail: the tail moves one history short of the target.
truncateFromTailShort(db, fr, ntail) ==
    LET ohead == fr.tail + Len(fr.items) IN
    IF fr.tail > ntail \/ ntail > ohead THEN [db |-> db, fr |-> fr, n |-> 0, err |-> "out of range"]
    ELSE IF fr.tail = ntail THEN [db |-> db, fr |-> fr, n |-> 0, err |-> ""]
    ELSE [db |-> DeleteStateIDs(db, {fr.items[i].root : i \in 1..(ntail - fr.tail)}),
          fr |-> [fr EXCEPT !.items = SubSeq(@, ntail - fr.tail, Len(@)), !.tail = ntail - 1],
          n |-> ntail - fr.tail, err |-> ""]

\* TruncateTail; n is the number of histories removed.
truncateFromTail(db, fr, ntail) ==
    LET ohead == fr.tail + Len(fr.items) IN
    IF fr.tail > ntail \/ ntail > ohead THEN [db |-> db, fr |-> fr, n |-> 0, err |-> "out of range"]
    ELSE IF fr.tail = ntail THEN [db |-> db, fr |-> fr, n |-> 0, err |-> ""]
    ELSE [db |-> DeleteStateIDs(db, {fr.items[i].root : i \in 1..(ntail - fr.tail)}),
          fr |-> [fr EXCEPT !.items = SubSeq(@, ntail - fr.tail + 1, Len(@)), !.tail = ntail],
          n |-> ntail - fr.tail, err |-> ""]

(***************************************************************************)
(* diskLayer.commit, diffToDisk and diffLayer.persist.                     *)
(* The steps of commit are operators over the memory, applied in the order *)
(* of the code.                                                            *)
(***************************************************************************)
\* What the trail remembers of the state a commit starts from.
Snapshot(m, dl) ==
    [root |-> m.layers[dl].root, id |-> m.layers[dl].id, diskdb |-> m.diskdb, buffer |-> m.buffer,
     generator |-> m.generator]

\* commit, first step: the history of the bottom layer goes to the freezer.
commitHistory(m, bottom) ==
    IF m.freezer.enabled
    THEN [m EXCEPT !.freezer = writeHistory(@, m.layers[m.layers[bottom].parent].root, m.layers[bottom])]
    ELSE m

\* A faulty commit that never finds the freezer beyond its limit.
overflowNever(m, bottom) == FALSE

\* commit: has the freezer grown beyond the configured number of histories?
overflow(m, bottom) ==
    m.freezer.enabled /\ m.freezer.limit # 0 /\ m.layers[bottom].id - m.freezer.tail > m.freezer.limit

\* commit: the id of the oldest history after truncation (zero without overflow).
oldest(m, bottom) == IF overflow(m, bottom) THEN m.layers[bottom].id - m.freezer.limit + 1 ELSE 0

\* A faulty commit: the flush is forced only when the caller asks for it.
forcedAsAsked(db, oldestId, force) == force

\* commit: the flush is forced as well when the oldest history left after
\* the truncation would be above the persistent state id.
forced(db, oldestId, force) == force \/ ReadPersistentStateID(db) < oldestId

\* diskLayer.markStale, past its check that the layer is not stale yet.
markStaleNever(m, dl) == m

markStale(m, dl) == [m EXCEPT !.layers[dl].stale = TRUE]

\* commit: the root -> id lookups, then the merge into the buffer.
commitMerge(m, dl, bottom) ==
    [m EXCEPT !.diskdb = WriteStateID(IF m.layers[dl].id = 0 THEN WriteStateID(@, m.layers[dl].root, 0) ELSE @,
                                      m.layers[bottom].root, m.layers[bottom].id),
              !.buffer = bufferCommit(@, m.layers[bottom].nodes, m.layers[bottom].accounts,
                                      m.layers[bottom].storages)]

\* commit: flush when the buffer is full or the flush is forced.
commitFlush(m, bottom, force) ==
    IF full(m.buffer) \/ force
    THEN flush(m, m.layers[bottom].root, genMarker(m), m.layers[bottom].id)
    ELSE [m |-> m, err |-> ""]

\* commit: the generator handed to the new disk layer.  It is dropped when a
\* flush found the generation complete and resumed on the new root when a
\* flush interrupted it.
commitGenerator(g, flushed, root) ==
    IF flushed /\ progressMarker(g).nil THEN NoGenerator
    ELSE IF flushed /\ g.linked THEN [g EXCEPT !.root = root]
    ELSE g

\* A faulty commit: the new disk layer keeps the state id of the old one.
commitLayerOldId(m, bottom, flushed, m0, dl) ==
    [m EXCEPT !.layers[NewRef(m)] = newDiskLayer(m.layers[bottom].root, m.layers[dl].id),
              !.generator = commitGenerator(@, flushed, m.layers[bottom].root),
              !.trail = Append(@, Snapshot(m0, dl))]

\* commit, last steps: the new disk layer, then the truncation of the freezer.
commitLayer(m, bottom, flushed, m0, dl) ==
    [m EXCEPT !.layers[NewRef(m)] = newDiskLayer(m.layers[bottom].root, m.layers[bottom].id),
              !.generator = commitGenerator(@, flushed, m.layers[bottom].root),
              !.trail = Append(@, Snapshot(m0, dl))]

commitTruncate(m, tr, ref) ==
    IF tr.err # "" THEN Fail([m EXCEPT !.diskdb = tr.db, !.freezer = tr.fr], tr.err)
    ELSE Ok([m EXCEPT !.diskdb = tr.db, !.freezer = tr.fr], ref)

commitFinish(m, bottom, ref) ==
    IF overflow(m, bottom)
    THEN commitTruncate(m, truncateFromTail(m.diskdb, m.freezer, oldest(m, bottom) - 1), ref)
    ELSE Ok(m, ref)

commitFlushed(fl, bottom, flushed, m0, dl) ==
    IF fl.err # "" THEN Fail(fl.m, fl.err)
    ELSE commitFinish(commitLayer(fl.m, bottom, flushed, m0, dl), bottom, NewRef(fl.m))

commitMerged(m, bottom, force, m0, dl) ==
    commitFlushed(commitFlush(m, bottom, force), bottom, full(m.buffer) \/ force, m0, dl)

\* diskLayer.commit of the revision that sets the stale flag itself: the
\* history, the flag, the lookups, the merge, the flush, the truncation.
commitUnguarded(m, dl, bottom, force) ==
    commitMerged(commitMerge(markStale(commitHistory(m, bottom), dl), dl, bottom), bottom,
                 forced(m.diskdb, oldest(m, bottom), force), m, dl)

\* diskLayer.commit: merge the bottom-most diff layer into the buffer of dl;
\* markStale panics when dl is stale already.
commit(m, dl, bottom, force) ==
    IF m.layers[dl].stale THEN Panic(commitHistory(m, bottom))
    ELSE commitUnguarded(m, dl, bottom, force)

\* diffToDisk: panics unless the parent of the layer is a disk layer.
diffToDisk(m, l, force) ==
    IF m.layers[m.layers[l].parent].kind # "disk" THEN Panic(m)
    ELSE commit(m, m.layers[l].parent, l, force)

\* persist, after the parents: re-home onto the disk layer they produced.
persistOnto(r, l, force) ==
    IF r.panic \/ r.err # "" THEN r
    ELSE diffToDisk([r.m EXCEPT !.layers[l].parent = r.ret], l, force)

\* diffLayer.persist: persist the parents first, then merge this layer.
RECURSIVE persist(_, _, _)
persist(m, l, force) ==
    IF m.layers[m.layers[l].parent].kind = "diff"
    THEN persistOnto(persist(m, m.layers[l].parent, force), l, force)
    ELSE diffToDisk(m, l, force)

(***************************************************************************)
(* triestate.Apply: replay a history on the post-state trie, reading the   *)
(* trie through the disk layer, and collect the nodes that change.         *)
(***************************************************************************)
\* The slots of the storage trie whose single node is `blob`.
SlotsOfBlob(blob) == [s \in Slots |-> IF blob = << >> THEN 0 ELSE blob[s]]

BlobOfSlots(slots) ==
    IF \E s \in Slots : slots[s] # 0 THEN [i \in 1..Cardinality(Slots) |-> slots[i]] ELSE << >>

\* The storage node of account h once the original slot values are written back.
revertedStorage(st, storages, h) ==
    BlobOfSlots([s \in Slots |-> IF h \o SlotHash(s) \in DOMAIN storages
                                 THEN SlotValue(storages[h \o SlotHash(s)])
                                 ELSE SlotsOfBlob(st)[s]])

NoAccount(err) == [leaf |-> << >>, st |-> << >>, err |-> err]

\* deleteAccount: the account was absent before the transition.
deleteAccount(leaf, st, stBlob, storages, h) ==
    IF leaf.err # "" THEN NoAccount(leaf.err)
    ELSE IF Len(leaf.blob) = 0 THEN NoAccount("account is not existent")
    ELSE IF RootOfBlob(st.blob) # AccountRoot(leaf.blob) THEN NoAccount("missing trie node")
    ELSE IF \E s \in Slots : h \o SlotHash(s) \in DOMAIN storages /\ Len(storages[h \o SlotHash(s)]) # 0
         THEN NoAccount("expect storage deletion")
    ELSE IF RootOfBlob(stBlob) # EmptyRootHash THEN NoAccount("failed to clear storage trie")
    ELSE [leaf |-> << >>, st |-> stBlob, err |-> ""]

\* A faulty updateAccount: the storage root is not compared with the one of
\* the pre-image.
updateAccountUnchecked(leaf, st, stBlob, prev) ==
    IF leaf.err # "" THEN NoAccount(leaf.err)
    ELSE [leaf |-> prev, st |-> stBlob, err |-> ""]

\* updateAccount: the account was present before the transition.
updateAccount(leaf, st, stBlob, prev) ==
    IF leaf.err # "" THEN NoAccount(leaf.err)
    ELSE IF RootOfBlob(st.blob) # (IF leaf.blob = << >> THEN EmptyRootHash ELSE AccountRoot(leaf.blob))
         THEN NoAccount("missing trie node")
    ELSE IF RootOfBlob(stBlob) # AccountRoot(prev) THEN NoAccount("failed to reset storage trie")
    ELSE [leaf |-> prev, st |-> stBlob, err |-> ""]

applyAccount(leaf, st, accounts, storages, h) ==
    IF Len(accounts[h]) = 0
    THEN deleteAccount(leaf, st, revertedStorage(st.blob, storages, h), storages, h)
    ELSE updateAccount(leaf, st, revertedStorage(st.blob, storages, h), FullAccount(accounts[h]))

\* The node blobs of the reverted trie: res holds the outcome per account.
applyBlobs(m, dl, res, k) ==
    IF k = AccountRootKey
    THEN RootBlobOf([a \in Addrs |-> IF AddrHash(a) \in DOMAIN res THEN res[AddrHash(a)].leaf
                                     ELSE node(m, dl, AccountLeafKey(a)).blob], Cardinality(Addrs))
    ELSE IF k[1] = ZeroHash
         THEN IF k[2] \in DOMAIN res THEN res[k[2]].leaf ELSE node(m, dl, k).blob
    ELSE IF k[1] \in DOMAIN res THEN res[k[1]].st ELSE node(m, dl, k).blob

\* The outcome of Apply: the nodes and the error it returns, or a panic.
ApplyError(err) == [nodes |-> EmptyMap, err |-> err, panic |-> FALSE]

\* Commit of the account trie returns no node set when no account written
\* differs from the one the trie holds.
commitNil(m, dl, res) == \A h \in DOMAIN res : res[h].leaf = node(m, dl, <<ZeroHash, h>>).blob

\* Apply after the accounts: the root is compared with prevRoot, and the
\* result of Commit is merged without a test for nil; merging nil is a nil
\* dereference.
applyCommit(m, dl, prevRoot, res, blobs) ==
    IF RootOfBlob(blobs[AccountRootKey]) # prevRoot THEN ApplyError("failed to revert state")
    ELSE IF commitNil(m, dl, res) THEN [nodes |-> EmptyMap, err |-> "", panic |-> TRUE]
    ELSE [nodes |-> [k \in {q \in NodeKeys : blobs[q] # node(m, dl, q).blob} |-> NodeOfBlob(blobs[k])],
          err |-> "", panic |-> FALSE]

applyAccounts(m, dl, prevRoot, res) ==
    IF \E h \in DOMAIN res : res[h].err # "" THEN ApplyError("failed to revert state")
    ELSE applyCommit(m, dl, prevRoot, res, [k \in NodeKeys |-> applyBlobs(m, dl, res, k)])

\* Apply: accounts and storages are the original values keyed by hash.
Apply(m, dl, prevRoot, postRoot, accounts, storages) ==
    IF node(m, dl, AccountRootKey).err # "" THEN ApplyError(node(m, dl, AccountRootKey).err)
    ELSE IF RootOfBlob(node(m, dl, AccountRootKey).blob) # postRoot
         THEN ApplyError("missing trie node")
    ELSE applyAccounts(m, dl, prevRoot,
                       [h \in DOMAIN accounts |->
                           applyAccount(node(m, dl, <<ZeroHash, h>>), node(m, dl, <<h, << >> >>),
                                        accounts, storages, h)])

(***************************************************************************)
(* diskLayer.revert                                                        *)
(***************************************************************************)
\* The original accounts of a history, keyed by account hash.
hashedAccounts(h) == [x \in {AddrHash(a) : a \in DOMAIN h.accounts} |-> h.accounts[AddrOfHash(x)]]

\* The original slots of a history, keyed by account hash ++ slot hash.
hashedStorages(h) ==
    [x \in {AddrHash(k[1]) \o <<k[2]>> : k \in DOMAIN h.storages} |-> h.storages[<<AddrOfHash(<<x[1]>>), x[2]>>]]

popTrail(m) == [m EXCEPT !.trail = IF Len(@) > 0 THEN SubSeq(@, 1, Len(@) - 1) ELSE @]

\* revert into the buffer: the transition has not been flushed yet.
revertBuffer(m, rb, root, id) ==
    IF rb.panic THEN Panic([m EXCEPT !.buffer = rb.b])
    ELSE IF rb.err # "" THEN Fail(m, rb.err)
    ELSE Ok([popTrail(m) EXCEPT !.buffer = rb.b, !.layers[NewRef(m)] = newDiskLayer(root, id)], NewRef(m))

\* revert on the store: one batch with the nodes, the flat states, the
\* persistent state id and the snapshot root.
revertStore(m, nodes, accounts, storages, root, id) ==
    Ok([popTrail(m) EXCEPT !.diskdb = [writeStates(@, genMarker(m), accounts, storages)
                                          EXCEPT !.nodes = writeNodes(@, nodes),
                                                 !.pid = id, !.snapRoot = root],
                           !.layers[NewRef(m)] = newDiskLayer(root, id),
                           !.generator = IF genMarker(m).nil THEN NoGenerator ELSE [@ EXCEPT !.root = root]],
       NewRef(m))

\* revert, once the layer is marked stale: into the buffer when it holds a
\* transition, on the store otherwise.
revertWrite(m, dl, h, nodes, accounts, storages) ==
    IF ~empty(m.buffer)
    THEN revertBuffer(m, bufferRevert(m.buffer, nodes, accounts, storages), h.parent, m.layers[dl].id - 1)
    ELSE revertStore(m, nodes, accounts, storages, h.parent, m.layers[dl].id - 1)

revertApplied(m, dl, h, ap, accounts, storages) ==
    IF ap.panic THEN Panic(m)
    ELSE IF ap.err # "" THEN Fail(m, ap.err)
    ELSE IF m.layers[dl].stale THEN Panic(m)
    ELSE revertWrite(markStale(m, dl), dl, h, ap.nodes, accounts, storages)

\* A revert that marks the layer stale before it looks at the history.
revertMarkFirst(m, dl, h) ==
    IF h.root # m.layers[dl].root THEN Fail(markStale(m, dl), errUnexpectedHistory)
    ELSE IF m.layers[dl].id = 0 THEN Fail(markStale(m, dl), errStateUnrecoverable)
    ELSE revertApplied(m, dl, h, Apply(m, dl, h.parent, h.root, hashedAccounts(h), hashedStorages(h)),
                       hashedAccounts(h), hashedStorages(h))

\* diskLayer.revert: the history must be the one of the layer's root and the
\* layer must have a state to go back to; nothing is touched before that.
revert(m, dl, h) ==
    IF h.root # m.layers[dl].root THEN Fail(m, errUnexpectedHistory)
    ELSE IF m.layers[dl].id = 0 THEN Fail(m, errStateUnrecoverable)
    ELSE revertApplied(m, dl, h, Apply(m, dl, h.parent, h.root, hashedAccounts(h), hashedStorages(h)),
                       hashedAccounts(h), hashedStorages(h))

(***************************************************************************)
(* The journal.                                                            *)
(***************************************************************************)
NoJournal == [present |-> FALSE]

\* The version this release writes and accepts.
journalVersion == 0

\* types.TrieRootHash of the account trie root node found in the store.
DiskRoot(db) == RootOfBlob(ReadTrieNode(db, AccountRootKey))

\* journalNodes: only the blobs are written, the hashes are recomputed on load.
EncodeNodes(nodes) == [k \in DOMAIN nodes |-> nodes[k].blob]

DecodeNodes(encoded) ==
    [k \in DOMAIN encoded |-> IF Len(encoded[k]) > 0 THEN NewNode(encoded[k]) ELSE NewDeleted]

\* diffLayer.journal, parents first: the entries of the diff layers from the
\* bottom-most one up to l.
RECURSIVE journalDiffs(_, _)
journalDiffs(m, l) ==
    IF m.layers[l].kind # "diff" THEN << >>
    ELSE Append(journalDiffs(m, m.layers[l].parent),
                [root |-> m.layers[l].root, block |-> m.layers[l].block,
                 nodes |-> EncodeNodes(m.layers[l].nodes),
                 accounts |-> m.layers[l].accounts, storages |-> m.layers[l].storages,
                 accountOrigin |-> m.layers[l].accountOrigin,
                 storageOrigin |-> m.layers[l].storageOrigin])

\* diskLayer.journal preceded by the root of the persistent state.
journal(m, dl, l) ==
    [present |-> TRUE, version |-> journalVersion, diskRoot |-> DiskRoot(m.diskdb),
     root |-> m.layers[dl].root, id |-> m.layers[dl].id,
     nodes |-> EncodeNodes(m.buffer.nodes),
     accounts |-> m.buffer.accounts, storages |-> m.buffer.storages,
     diffs |-> journalDiffs(m, l)]

\* loadDiffLayer: every diff layer gets the state id of its parent plus one.
RECURSIVE loadDiffLayer(_, _, _)
loadDiffLayer(ls, parent, diffs) ==
    IF diffs = << >> THEN ls
    ELSE loadDiffLayer([ls EXCEPT ![parent + 1] =
                            newDiffLayer(parent, Head(diffs).root, ls[parent].id + 1, Head(diffs).block,
                                         DecodeNodes(Head(diffs).nodes), Head(diffs))],
                       parent + 1, Tail(diffs))

\* loadDiskLayer: the buffer holds as many transitions as the journalled state
\* id is ahead of the persistent one.
loadDiskLayer(db, j) ==
    IF ReadPersistentStateID(db) > j.id THEN [err |-> "invalid state id"]
    ELSE [err |-> "", layer |-> newDiskLayer(j.root, j.id),
          buffer |-> [newNodeBuffer(DecodeNodes(j.nodes), j.id - ReadPersistentStateID(db))
                         EXCEPT !.accounts = j.accounts, !.storages = j.storages]]

loadStack(base, diffs) ==
    IF base.err # "" THEN base
    ELSE [err |-> "", buffer |-> base.buffer,
          layers |-> loadDiffLayer([r \in Refs |-> IF r = 1 THEN base.layer ELSE FreeLayer], 1, diffs)]

\* A load that takes any journal it finds, whatever its version and root.
loadJournalUnchecked(db, diskRoot) ==
    IF ~db.journal.present THEN [err |-> "journal is not found"]
    ELSE loadStack(loadDiskLayer(db, db.journal), db.journal.diffs)

\* loadJournal: the journal must be there, of this version, and written
\* over the disk root of the store.
loadJournal(db, diskRoot) ==
    IF ~db.journal.present THEN [err |-> "journal is not found"]
    ELSE IF db.journal.version # journalVersion THEN [err |-> "unexpected journal version"]
    ELSE IF db.journal.diskRoot # diskRoot THEN [err |-> "layer journal is not matched with disk layer"]
    ELSE loadStack(loadDiskLayer(db, db.journal), db.journal.diffs)

loadHead(db, head) ==
    IF head.err = "" THEN [layers |-> head.layers, buffer |-> head.buffer]
    ELSE [layers |-> [r \in Refs |-> IF r = 1 THEN newDiskLayer(DiskRoot(db), ReadPersistentStateID(db))
                                     ELSE FreeLayer],
          buffer |-> newNodeBuffer(EmptyMap, 0)]

\* loadLayers: the journalled stack, or the bare persistent state.
loadLayers(db) == loadHead(db, loadJournal(db, DiskRoot(db)))

(***************************************************************************)
(* The state readers of core/state.  A backend answers with a value and an *)
(* error; the reader keeps what the backends answer, its caches of storage *)
(* roots and opened storage tries, and the calls the last read has made.   *)
(***************************************************************************)
NilAccount == [nil |-> TRUE, bal |-> 0, root |-> << >>]

\* rlp encoding of a byte string: a single byte below 128 stands for itself,
\* any other string follows a byte holding 128 plus its length.
RlpEncode(content) ==
    IF Len(content) = 1 /\ content[1] < 128 THEN content ELSE <<128 + Len(content)>> \o content

\* rlp.Split: the content of the first value of the blob.
RlpSplit(blob) ==
    IF blob[1] < 128 THEN [content |-> <<blob[1]>>, err |-> ""]
    ELSE IF blob[1] - 128 > Len(blob) - 1
         THEN [content |-> << >>, err |-> "rlp: value size exceeds available input length"]
    ELSE [content |-> SubSeq(blob, 2, 1 + blob[1] - 128), err |-> ""]

\* A read registers the backend it calls.
Called(rd, name) == [rd EXCEPT !.calls = Append(@, name)]

Answer(val, err, rd) == [val |-> val, err |-> err, rd |-> rd]

\* The slim account of the flat state as a state account: an omitted storage
\* root becomes the root of the empty trie.
StateAccount(slim) ==
    IF slim.nil THEN NilAccount
    ELSE [slim EXCEPT !.root = IF @ = << >> THEN EmptyRootHash ELSE @]

\* stateReader.Account
stateReaderAccount(rd, a) ==
    IF rd.snapAccount.err # "" THEN Answer(NilAccount, rd.snapAccount.err, Called(rd, "snap"))
    ELSE Answer(StateAccount(rd.snapAccount.val), "", Called(rd, "snap"))

\* stateReader.Storage: the flat value is an rlp string.
stateReaderStorage(rd, a, sl) ==
    IF rd.snapStorage.err # "" THEN Answer(<< >>, rd.snapStorage.err, Called(rd, "snap"))
    ELSE IF Len(rd.snapStorage.val) = 0 THEN Answer(<< >>, "", Called(rd, "snap"))
    ELSE Answer(RlpSplit(rd.snapStorage.val).content, RlpSplit(rd.snapStorage.val).err, Called(rd, "snap"))

\* trieReader.Account: the storage root of a resolved account is cached.
trieReaderAccount(rd, a) ==
    IF rd.trieAccount.err # "" THEN Answer(NilAccount, rd.trieAccount.err, Called(rd, "trie"))
    ELSE Answer(rd.trieAccount.val, "",
                [Called(rd, "trie") EXCEPT !.subRoots = Merge(@, [x \in {a} |->
                     IF rd.trieAccount.val.nil THEN EmptyRootHash ELSE rd.trieAccount.val.root])])

\* Opening a storage trie at a root: the trie of the empty root has no node
\* to resolve; any other trie is opened by resolving its root node, and the
\* opening fails when that node is missing.
NewStateTrie(rd, root) ==
    IF root = EmptyRootHash \/ rd.trieStorage.open THEN "" ELSE rd.trieStorage.err

\* Trie.GetStorage on an opened storage trie: the empty trie holds no slot.
GetStorage(rd, root) ==
    IF root = EmptyRootHash THEN [val |-> << >>, err |-> ""]
    ELSE [val |-> rd.trieStorage.val, err |-> rd.trieStorage.err]

\* trieReader.Storage, once the storage root is known: a trie that cannot be
\* opened is not cached.
trieGetStorage(rd, a) ==
    IF a \in rd.subTries
    THEN Answer(GetStorage(rd, rd.subRoots[a]).val, GetStorage(rd, rd.subRoots[a]).err, rd)
    ELSE IF NewStateTrie(rd, rd.subRoots[a]) # ""
    THEN Answer(<< >>, NewStateTrie(rd, rd.subRoots[a]), rd)
    ELSE Answer(GetStorage(rd, rd.subRoots[a]).val, GetStorage(rd, rd.subRoots[a]).err,
                [rd EXCEPT !.subTries = @ \cup {a}])

trieStorageResolved(acct, a) ==
    IF acct.err # "" THEN Answer(<< >>, acct.err, acct.rd) ELSE trieGetStorage(acct.rd, a)

\* trieReader.Storage: the account is resolved first when its root is unknown.
trieReaderStorage(rd, a, sl) ==
    IF a \in rd.subTries THEN trieGetStorage(Called(rd, "trie"), a)
    ELSE IF a \notin DOMAIN rd.subRoots THEN trieStorageResolved(trieReaderAccount(rd, a), a)
    ELSE trieGetStorage(Called(rd, "trie"), a)

\* errors.Join
Join(e1, e2) == e1 \o "\n" \o e2

multiSecond(r1, r2, zero) ==
    IF r2.err = "" THEN r2 ELSE Answer(zero, Join(r1.err, r2.err), r2.rd)

\* A faulty multiReader.Account: the error of the first reader is returned.
multiReaderAccountNoFallback(rd, a) == stateReaderAccount(rd, a)

\* multiReader.Account over the readers (stateReader, trieReader).
multiReaderAccount(rd, a) ==
    IF stateReaderAccount(rd, a).err = "" THEN stateReaderAccount(rd, a)
    ELSE multiSecond(stateReaderAccount(rd, a), trieReaderAccount(stateReaderAccount(rd, a).rd, a), NilAccount)

\* multiReader.Storage
multiReaderStorage(rd, a, sl) ==
    IF stateReaderStorage(rd, a, sl).err = "" THEN stateReaderStorage(rd, a, sl)
    ELSE multiSecond(stateReaderStorage(rd, a, sl),
                     trieReaderStorage(stateReaderStorage(rd, a, sl).rd, a, sl), << >>)

\* The deferred function of merkleReader.Account: the storage root is cached
\* whatever the outcome.
merkleCached(r, a) ==
    [r EXCEPT !.rd.storageRoots = Merge(@, [x \in {a} |-> IF r.val.nil THEN EmptyRootHash ELSE r.val.root])]

\* merkleReader.Account: the snapshot first, the account trie as fallback.
merkleReaderAccount(rd, a) ==
    IF rd.snapAccount.err = ""
    THEN merkleCached(Answer(StateAccount(rd.snapAccount.val), "", Called(rd, "snap")), a)
    ELSE merkleCached(Answer(rd.trieAccount.val, rd.trieAccount.err, Called(Called(rd, "snap"), "trie")), a)

\* merkleReader.storageTrie once the storage root is known, followed by
\* GetStorage: a trie that cannot be opened is not cached.
merkleGetStorage(rd, a) ==
    IF NewStateTrie(rd, rd.storageRoots[a]) # ""
    THEN Answer(<< >>, NewStateTrie(rd, rd.storageRoots[a]), Called(rd, "trie"))
    ELSE Answer(GetStorage(rd, rd.storageRoots[a]).val, GetStorage(rd, rd.storageRoots[a]).err,
                [Called(rd, "trie") EXCEPT !.storageTries = @ \cup {a}])

merkleStorageResolved(acct, a) ==
    IF acct.err # "" THEN Answer(<< >>, acct.err, acct.rd) ELSE merkleGetStorage(acct.rd, a)

\* merkleReader.storageTrie followed by GetStorage.
merkleStorageTrie(rd, a) ==
    IF a \in rd.storageTries
    THEN Answer(GetStorage(rd, rd.storageRoots[a]).val, GetStorage(rd, rd.storageRoots[a]).err, Called(rd, "trie"))
    ELSE IF a \in DOMAIN rd.storageRoots THEN merkleGetStorage(rd, a)
    ELSE merkleStorageResolved(merkleReaderAccount(rd, a), a)

\* merkleReader.Storage: a snapshot value that does not decode ends the read.
merkleReaderStorage(rd, a, sl) ==
    IF rd.snapStorage.err = ""
    THEN IF Len(rd.snapStorage.val) = 0 THEN Answer(<< >>, "", Called(rd, "snap"))
         ELSE Answer(RlpSplit(rd.snapStorage.val).content, RlpSplit(rd.snapStorage.val).err, Called(rd, "snap"))
    ELSE merkleStorageTrie(Called(rd, "snap"), a)

(***************************************************************************)
(* The driver: the layer tree over the heap, and the operations it issues. *)
(***************************************************************************)
RECURSIVE BaseOf(_, _)
BaseOf(ls, r) == IF ls[r].kind = "diff" THEN BaseOf(ls, ls[r].parent) ELSE r

RECURSIVE Depth(_, _)
Depth(ls, r) == IF ls[r].kind = "diff" THEN 1 + Depth(ls, ls[r].parent) ELSE 0

\* The layers of the tree: those that rest on the tree's disk layer.
InTree(r) == layers[r].kind # "free" /\ BaseOf(layers, r) = disk

\* Dropping every layer that does not rest on the disk layer d.
Collect(ls, d) == [r \in Refs |-> IF ls[r].kind # "free" /\ BaseOf(ls, r) = d THEN ls[r] ELSE FreeLayer]

NumFree == Cardinality({r \in Refs : layers[r].kind = "free"})

\* The world state seen through a layer, read from the trie nodes.
WorldAt(m, l) ==
    [bal |-> [a \in Addrs |-> LET b == node(m, l, AccountLeafKey(a)).blob IN IF b = << >> THEN 0 ELSE b[1]],
     slot |-> [k \in Addrs \X Slots |-> SlotsOfBlob(node(m, l, StorageNodeKey(k[1])).blob)[k[2]]]]

Readable(m, l) == node(m, l, AccountRootKey).err = ""

NumDiffs == Cardinality({r \in Refs : layers[r].kind = "diff"})

\* The transitions the execution engine produces: a block changes one account.
Steps(w) == {w2 \in Worlds : Cardinality({a \in Addrs : w2.bal[a] # w.bal[a] \/
                                             \E s \in Slots : w2.slot[<<a, s>>] # w.slot[<<a, s>>]}) = 1}

None == [root |-> << >>]

\* No read has been made, no state reader is open, no goroutine is running.
NoObs == [op |-> "none"]

NoReader == [open |-> FALSE]

NoConc == [on |-> FALSE]

NoHist == [on |-> FALSE]

NoGen == [on |-> FALSE]

NoPruner == [on |-> FALSE]

\* The parts of the state that a run of the layered store leaves alone.
Idle == hist = NoHist /\ gen = NoGen /\ pruner = NoPruner

\* The outcome of an operation on the memory, as the driver sees it.
Finish(r, newDisk, newLayers) ==
    /\ layers' = IF r.panic \/ r.err # "" THEN r.m.layers ELSE newLayers
    /\ disk' = IF r.panic \/ r.err # "" THEN disk ELSE newDisk
    /\ buffer' = r.m.buffer
    /\ diskdb' = r.m.diskdb
    /\ freezer' = r.m.freezer
    /\ generator' = r.m.generator
    /\ trail' = r.m.trail
    /\ status' = IF r.panic THEN "panic" ELSE status
    /\ lastErr' = r.err

\* tree.reset: only the disk layer the operation returned stays in the tree.
FinishReset(r) == Finish(r, r.ret, Collect(r.m.layers, r.ret))

\* layerTree.cap: l is re-homed onto the returned disk layer.
FinishCap(r, l) == Finish(r, r.ret, Collect([r.m.layers EXCEPT ![l].parent = r.ret], r.ret))

\* Recover: after a successful revert the histories above the new disk layer go.
recoverTruncate(r, tr) == [r EXCEPT !.m.diskdb = tr.db, !.m.freezer = tr.fr, !.err = tr.err]

recoverFinish(r) ==
    IF r.panic \/ r.err # "" THEN r
    ELSE recoverTruncate(r, truncateFromHead(r.m.diskdb, r.m.freezer, r.m.layers[r.ret].id))

recoverWith(rd) ==
    IF rd.err # ""
    THEN /\ lastErr' = rd.err
         /\ reverted' = None
         /\ UNCHANGED <<layers, disk, buffer, diskdb, freezer, generator, status, trail>>
    ELSE /\ FinishReset(recoverFinish(revert(Mem, disk, rd.h)))
         /\ reverted' = IF status' = "running" /\ lastErr' = "" /\ Len(trail) > 0 THEN trail[Len(trail)] ELSE None

\* Database.Update: a new diff layer on top of any layer p of the tree, built
\* by layer.update with the state id of that layer plus one.
Update(p, w2) ==
    /\ status = "running"
    /\ InTree(p)
    /\ NumFree >= 1
    /\ NumDiffs < MaxDiffs
    /\ layers[p].id + 1 <= MaxId
    /\ Readable(Mem, p)
    /\ w2 \in Steps(WorldAt(Mem, p))
    /\ layers' = [layers EXCEPT ![NewRef(Mem)] =
                     update(p, StateRoot(w2), layers[p].id + 1, layers[p].id + 1,
                            DirtyNodes(WorldAt(Mem, p), w2), StateSet(WorldAt(Mem, p), w2))]
    /\ lastErr' = ""
    /\ reverted' = None
    /\ obs' = NoObs
    /\ UNCHANGED <<disk, buffer, diskdb, freezer, generator, status, trail, reader, conc, hist, gen, pruner>>

\* Database.Commit: flatten l and the chain below it with persist(force), and
\* keep only the resulting disk layer.
Commit(l, force) ==
    /\ status = "running"
    /\ InTree(l) /\ layers[l].kind = "diff"
    /\ NumFree >= Depth(layers, l)
    /\ FinishReset(persist(Mem, l, force))
    /\ reverted' = None
    /\ obs' = NoObs
    /\ UNCHANGED <<reader, conc, hist, gen, pruner>>

\* layerTree.cap: flatten the layers below l without force, re-home l onto the
\* resulting disk layer and drop what no longer rests on it.
Cap(l) ==
    /\ status = "running"
    /\ InTree(l) /\ layers[l].kind = "diff" /\ layers[layers[l].parent].kind = "diff"
    /\ NumFree >= Depth(layers, l) - 1
    /\ FinishCap(persist(Mem, layers[l].parent, FALSE), l)
    /\ reverted' = None
    /\ obs' = NoObs
    /\ UNCHANGED <<reader, conc, hist, gen, pruner>>

\* Database.Recover to the parent state: revert the disk layer with the
\* history of its state id, reset the tree to the resulting disk layer and
\* drop the histories above it.
Recover ==
    /\ status = "running"
    /\ freezer.enabled
    /\ NumFree >= 1
    /\ recoverWith(readHistory(freezer, layers[disk].id))
    /\ obs' = NoObs
    /\ UNCHANGED <<reader, conc, hist, gen, pruner>>

\* Database.Journal: write the stack below l into the store and close.
Journal(l) ==
    /\ status = "running"
    /\ InTree(l)
    /\ IF layers[disk].stale
       THEN /\ lastErr' = errSnapshotStale
            /\ UNCHANGED <<diskdb, status>>
       ELSE /\ diskdb' = [diskdb EXCEPT !.journal = journal(Mem, disk, l)]
            /\ status' = "closed"
            /\ lastErr' = ""
    /\ reverted' = None
    /\ obs' = NoObs
    /\ UNCHANGED <<layers, disk, buffer, freezer, generator, trail, reader, conc, hist, gen, pruner>>

\* A new process over the store of a closed one: the layers come from
\* loadLayers and the freezer is cut back to the disk layer.  The journal is
\* read at this point only, and the next shutdown overwrites it: the model
\* forgets it once it is loaded.
restartWith(ld, tr) ==
    /\ layers' = ld.layers
    /\ buffer' = ld.buffer
    /\ diskdb' = [tr.db EXCEPT !.journal = NoJournal]
    /\ freezer' = tr.fr

restartLoaded(ld) ==
    restartWith(ld, IF freezer.enabled /\ freezer.tail + Len(freezer.items) > ld.layers[1].id
                    THEN truncateFromHead(diskdb, freezer, ld.layers[1].id)
                    ELSE [db |-> diskdb, fr |-> freezer, err |-> ""])

Restart ==
    /\ status = "closed"
    /\ restartLoaded(loadLayers(diskdb))
    /\ disk' = 1
    /\ status' = "running"
    /\ lastErr' = ""
    /\ trail' = << >>
    /\ reverted' = None
    /\ obs' = NoObs
    /\ UNCHANGED <<generator, reader, conc, hist, gen, pruner>>

(***************************************************************************)
(* The initial state: a store holding one of the initial worlds, no        *)
(* journal, persistent state id 0, and a lone disk layer over it.          *)
(***************************************************************************)
InitWorlds ==
    {EmptyWorld,
     [bal |-> [a \in Addrs |-> IF a = 1 THEN 1 ELSE 0],
      slot |-> [k \in Addrs \X Slots |-> IF k[1] = 1 THEN 1 ELSE 0]]}

StoreOf(w) ==
    [nodes |-> [k \in {q \in NodeKeys : TrieBlob(w, q) # << >>} |-> TrieBlob(w, k)],
     accounts |-> [h \in {AddrHash(a) : a \in {x \in Addrs : w.bal[x] # 0}} |-> AccountBlob(w, AddrOfHash(h))],
     storages |-> [h \in {StorageKey(k[1], k[2]) : k \in {x \in Addrs \X Slots : w.slot[x] # 0}} |->
                     SlotBlob(w.slot[<<AddrOfHash(<<h[1]>>), SlotOfHash(<<h[2]>>)>>])],
     pid |-> 0, stateIDs |-> EmptyMap, snapRoot |-> StateRoot(w), journal |-> NoJournal]

\* The configurations: no freezer, a freezer keeping every history, a freezer
\* keeping the most recent ones.
Configs == {<<FALSE, 0>>, <<TRUE, 0>>, <<TRUE, StateHistory>>}

InitStore ==
    /\ \E w \in InitWorlds :
         /\ diskdb = StoreOf(w)
         /\ layers = [r \in Refs |-> IF r = 1 THEN newDiskLayer(StateRoot(w), 0) ELSE FreeLayer]
    /\ disk = 1
    /\ buffer = newNodeBuffer(EmptyMap, 0)
    /\ \E cfg \in Configs : freezer = [enabled |-> cfg[1], limit |-> cfg[2], tail |-> 0, items |-> << >>]
    /\ generator = NoGenerator
    /\ status = "running"
    /\ lastErr = ""
    /\ trail = << >>
    /\ reverted = None
    /\ obs = NoObs

\* No state reader is open and no goroutine runs besides the caller.
Init == InitStore /\ reader = NoReader /\ conc = NoConc /\ Idle

Next ==
    \/ \E p \in Refs, w2 \in Worlds : Update(p, w2)
    \/ \E l \in Refs, force \in BOOLEAN : Commit(l, force)
    \/ \E l \in Refs : Cap(l)
    \/ Recover
    \/ \E l \in Refs : Journal(l)
    \/ Restart

Spec == Init /\ [][Next]_vars

(***************************************************************************)
(* The earlier revision of the layers: commit sets the stale flag itself,  *)
(* node reads take the expected hash, and the caller keeps its references  *)
(* to the layers it has flattened.                                         *)
(***************************************************************************)
\* The hashes a trie hands to a node read: those of the nodes it knows.
ExpectedHashes == {NodeOfBlob(TrieBlob(w, k)).hash : w \in InitWorlds, k \in NodeKeys}

\* persist of a diff layer that sits on a disk layer, live or stale.  The
\* buffer's counter of layers is capped.
LegacyCommit(l, force) ==
    /\ status = "running"
    /\ layers[l].kind = "diff" /\ layers[layers[l].parent].kind = "disk"
    /\ NumFree >= 1
    /\ buffer.layers <= MaxId
    /\ Finish(commitUnguarded(Mem, layers[l].parent, l, force),
              commitUnguarded(Mem, layers[l].parent, l, force).ret,
              commitUnguarded(Mem, layers[l].parent, l, force).m.layers)
    /\ reverted' = None
    /\ obs' = NoObs
    /\ UNCHANGED <<reader, conc, hist, gen, pruner>>

\* Reader.Node on any layer; one read is observed at a time.
LegacyNode(l, key, hash) ==
    /\ status = "running"
    /\ obs = NoObs
    /\ layers[l].kind # "free"
    /\ obs' = [op |-> "Node", layer |-> l, key |-> key, hash |-> hash, res |-> ReaderNode(Mem, l, key, hash)]
    /\ UNCHANGED <<layers, disk, buffer, diskdb, freezer, generator, status, lastErr, trail, reverted,
                   reader, conc, hist, gen, pruner>>

NextLegacy ==
    \/ \E p \in Refs, w2 \in Worlds : Update(p, w2)
    \/ \E l \in Refs, force \in BOOLEAN : LegacyCommit(l, force)
    \/ \E l \in Refs, key \in NodeKeys, hash \in ExpectedHashes : LegacyNode(l, key, hash)

\* That revision runs over a store without a freezer.
InitLegacy == Init /\ ~freezer.enabled

SpecLegacy == InitLegacy /\ [][NextLegacy]_vars

(***************************************************************************)
(* The store while the flat snapshot is being generated: the generator is  *)
(* linked to the disk layer, and the flat tables hold the entries up to    *)
(* its progress marker.                                                    *)
(***************************************************************************)
\* The markers a generator stops at: nothing covered yet, an account, or a
\* storage slot of an account.
GenMarkers ==
    {<< >>} \cup {AddrHash(a) : a \in Addrs} \cup {StorageKey(a, sl) : a \in Addrs, sl \in Slots}

\* The store of a world whose flat tables are generated up to the progress.
StoreUpTo(w, progress) ==
    [StoreOf(w) EXCEPT !.accounts = [h \in {x \in DOMAIN @ : Covered(progress, x)} |-> @[h]],
                       !.storages = [h \in {x \in DOMAIN @ : Covered(progress, x)} |-> @[h]]]

InitGen ==
    /\ \E w \in InitWorlds, done \in BOOLEAN, marker \in GenMarkers :
         /\ done => marker = << >>
         /\ generator = [linked |-> TRUE, done |-> done, marker |-> marker, root |-> StateRoot(w)]
         /\ diskdb = StoreUpTo(w, progressMarker(generator))
         /\ layers = [r \in Refs |-> IF r = 1 THEN newDiskLayer(StateRoot(w), 0) ELSE FreeLayer]
    /\ disk = 1
    /\ buffer = newNodeBuffer(EmptyMap, 0)
    /\ freezer = [enabled |-> FALSE, limit |-> 0, tail |-> 0, items |-> << >>]
    /\ status = "running"
    /\ lastErr = ""
    /\ trail = << >>
    /\ reverted = None
    /\ obs = NoObs
    /\ reader = NoReader
    /\ conc = NoConc /\ Idle

\* layer.account on a layer of the tree; one read is observed at a time.
ReadAccount(l, hash) ==
    /\ status = "running"
    /\ obs = NoObs
    /\ InTree(l)
    /\ obs' = [op |-> "account", table |-> "accounts", layer |-> l, key |-> hash, res |-> account(Mem, l, hash)]
    /\ UNCHANGED <<layers, disk, buffer, diskdb, freezer, generator, status, lastErr, trail, reverted,
                   reader, conc, hist, gen, pruner>>

\* layer.storage on a layer of the tree.
ReadStorage(l, key) ==
    /\ status = "running"
    /\ obs = NoObs
    /\ InTree(l)
    /\ obs' = [op |-> "storage", table |-> "storages", layer |-> l, key |-> key, res |-> storage(Mem, l, key)]
    /\ UNCHANGED <<layers, disk, buffer, diskdb, freezer, generator, status, lastErr, trail, reverted,
                   reader, conc, hist, gen, pruner>>

NextGen ==
    \/ \E p \in Refs, w2 \in Worlds : Update(p, w2)
    \/ \E l \in Refs, force \in BOOLEAN : Commit(l, force)
    \/ \E l \in Refs, a \in Addrs : ReadAccount(l, AddrHash(a))
    \/ \E l \in Refs, a \in Addrs, sl \in Slots : ReadStorage(l, StorageKey(a, sl))

SpecGen == InitGen /\ [][NextGen]_vars

(***************************************************************************)
(* The state readers over backends with fixed answers.                     *)
(***************************************************************************)
SnapAccountAnswers ==
    {[val |-> NilAccount, err |-> ""],
     [val |-> [nil |-> FALSE, bal |-> 1, root |-> << >>], err |-> ""],
     [val |-> [nil |-> FALSE, bal |-> 1, root |-> Hash(<<1>>)], err |-> ""],
     [val |-> NilAccount, err |-> errNotCoveredYet],
     [val |-> NilAccount, err |-> errSnapshotStale]}

\* Flat slot values: none, two well-formed rlp strings, and one cut short.
SnapStorageAnswers ==
    {[val |-> << >>, err |-> ""],
     [val |-> RlpEncode(<<5>>), err |-> ""],
     [val |-> RlpEncode(<<200>>), err |-> ""],
     [val |-> <<130, 1>>, err |-> ""],
     [val |-> << >>, err |-> errNotCoveredYet],
     [val |-> << >>, err |-> errSnapshotStale]}

TrieAccountAnswers ==
    {[val |-> NilAccount, err |-> ""],
     [val |-> [nil |-> FALSE, bal |-> 1, root |-> Hash(<<1>>)], err |-> ""],
     [val |-> NilAccount, err |-> "missing trie node"]}

\* The storage trie of a non-empty root: a slot without value, a slot with a
\* value, a trie whose root node is missing (it cannot be opened), and a trie
\* that misses a node on the path of the slot.
TrieStorageAnswers ==
    {[val |-> << >>, err |-> "", open |-> TRUE],
     [val |-> <<200>>, err |-> "", open |-> TRUE],
     [val |-> << >>, err |-> "missing trie node", open |-> FALSE],
     [val |-> << >>, err |-> "missing trie node", open |-> TRUE]}

InitReader ==
    /\ InitStore
    /\ conc = NoConc /\ Idle
    /\ diskdb = StoreOf(EmptyWorld)
    /\ ~freezer.enabled
    /\ \E sa \in SnapAccountAnswers, ss \in SnapStorageAnswers,
          ta \in TrieAccountAnswers, ts \in TrieStorageAnswers :
         reader = [open |-> TRUE, snapAccount |-> sa, snapStorage |-> ss, trieAccount |-> ta,
                   trieStorage |-> ts, subRoots |-> EmptyMap, subTries |-> {},
                   storageRoots |-> EmptyMap, storageTries |-> {}, calls |-> << >>]

\* A read through one of the readers: what it answered, which backends it
\* called, and the reader it started from.
Observe(kind, op, a, sl, r) ==
    /\ obs' = [op |-> op, kind |-> kind, addr |-> a, slot |-> sl, val |-> r.val, err |-> r.err,
               calls |-> r.rd.calls, before |-> reader]
    /\ reader' = [r.rd EXCEPT !.calls = << >>]
    /\ UNCHANGED <<layers, disk, buffer, diskdb, freezer, generator, status, lastErr, trail, reverted, conc, hist, gen, pruner>>

MultiAccount(a) == reader.open /\ Observe("multi", "Account", a, 0, multiReaderAccount(reader, a))

MultiStorage(a, sl) == reader.open /\ Observe("multi", "Storage", a, sl, multiReaderStorage(reader, a, sl))

MerkleAccount(a) == reader.open /\ Observe("merkle", "Account", a, 0, merkleReaderAccount(reader, a))

MerkleStorage(a, sl) == reader.open /\ Observe("merkle", "Storage", a, sl, merkleReaderStorage(reader, a, sl))

NextReader ==
    \/ \E a \in Addrs : MultiAccount(a)
    \/ \E a \in Addrs, sl \in Slots : MultiStorage(a, sl)
    \/ \E a \in Addrs : MerkleAccount(a)
    \/ \E a \in Addrs, sl \in Slots : MerkleStorage(a, sl)

SpecReader == InitReader /\ [][NextReader]_vars

(***************************************************************************)
(* The readers over one state: every account of it is `truth`; the         *)
(* snapshot answers with it or refuses, the account trie answers with it   *)
(* or misses a node.                                                       *)
(***************************************************************************)
TrueAccounts ==
    {NilAccount, [nil |-> FALSE, bal |-> 1, root |-> EmptyRootHash], [nil |-> FALSE, bal |-> 1, root |-> Hash(<<1>>)]}

\* The slim form of an account in the flat state: the empty root is left out.
SlimOf(acct) == IF acct.nil THEN acct ELSE [acct EXCEPT !.root = IF @ = EmptyRootHash THEN << >> ELSE @]

InitMerkle ==
    /\ InitStore
    /\ conc = NoConc /\ Idle
    /\ diskdb = StoreOf(EmptyWorld)
    /\ ~freezer.enabled
    /\ \E truth \in TrueAccounts, ss \in SnapStorageAnswers, ts \in TrieStorageAnswers,
          serr \in {"", errNotCoveredYet, errSnapshotStale}, terr \in {"", "missing trie node"} :
         reader = [open |-> TRUE, truth |-> truth,
                   snapAccount |-> IF serr = "" THEN [val |-> SlimOf(truth), err |-> ""]
                                   ELSE [val |-> NilAccount, err |-> serr],
                   snapStorage |-> ss,
                   trieAccount |-> IF terr = "" THEN [val |-> truth, err |-> ""]
                                   ELSE [val |-> NilAccount, err |-> terr],
                   trieStorage |-> ts, subRoots |-> EmptyMap, subTries |-> {},
                   storageRoots |-> EmptyMap, storageTries |-> {}, calls |-> << >>]

SpecMerkle == InitMerkle /\ [][NextReader]_vars

(***************************************************************************)
(* Readers running beside one commit or revert.  A reader holds the read   *)
(* lock of its disk layer from its first step to its return; markStale     *)
(* takes the write lock of the layer for the moment it sets the flag.      *)
(***************************************************************************)
Threads == {1, 2}

\* What the readers ask for: a node, an account, a storage slot.
ReadTargets == {<<"node", AccountLeafKey(1)>>, <<"account", AddrHash(1)>>, <<"storage", StorageKey(1, 1)>>}

IdleReader == [pc |-> "idle", dl |-> NoRef, op |-> "", key |-> << >>, blob |-> << >>, err |-> ""]

IdleWriter == [pc |-> "idle"]

\* sync.RWMutex: the read lock of dl is held by the readers inside a read.
RLocked(c, dl) == \E t \in Threads : c.readers[t].pc # "idle" /\ c.readers[t].dl = dl

\* A faulty markStale: the flag is set without the write lock.
CanLockAlways(c, dl) == TRUE

\* markStale's dl.lock.Lock(): granted once no reader holds the read lock.
CanLock(c, dl) == ~RLocked(c, dl)

InitConc ==
    /\ InitStore
    /\ diskdb = StoreOf(CHOOSE w \in InitWorlds : w # EmptyWorld)
    /\ freezer.enabled /\ freezer.limit = 0
    /\ reader = NoReader /\ Idle
    /\ conc = [on |-> TRUE, readers |-> [t \in Threads |-> IdleReader], writer |-> IdleWriter]

StoreUnchanged == UNCHANGED <<layers, disk, buffer, diskdb, freezer, generator, status, lastErr, trail, reverted>>

\* The tables a read consults, by what is read.
TableOf(op) == IF op = "node" THEN "nodes" ELSE IF op = "account" THEN "accounts" ELSE "storages"

\* diskLayer.node / account / storage, first statements: dl.lock.RLock()
\* and, under it, the check of the stale flag.
ReadLock(t, dl, target) ==
    /\ conc.on /\ status = "running"
    /\ conc.readers[t].pc = "idle"
    /\ layers[dl].kind = "disk"
    /\ conc' = [conc EXCEPT !.readers[t] =
                   IF layers[dl].stale
                   THEN [IdleReader EXCEPT !.pc = "done", !.dl = dl, !.op = target[1], !.key = target[2],
                                           !.err = errSnapshotStale]
                   ELSE [IdleReader EXCEPT !.pc = "buffer", !.dl = dl, !.op = target[1], !.key = target[2]]]
    /\ StoreUnchanged /\ UNCHANGED <<obs, reader, hist, gen, pruner>>

\* ... the lookup in the buffer.
ReadBuffer(t) ==
    /\ conc.on /\ conc.readers[t].pc = "buffer"
    /\ conc' = IF conc.readers[t].key \in DOMAIN buffer[TableOf(conc.readers[t].op)]
               THEN [conc EXCEPT !.readers[t].pc = "done",
                                 !.readers[t].blob =
                                     IF conc.readers[t].op = "node" THEN buffer.nodes[conc.readers[t].key].blob
                                     ELSE buffer[TableOf(conc.readers[t].op)][conc.readers[t].key]]
               ELSE [conc EXCEPT !.readers[t].pc = "store"]
    /\ StoreUnchanged /\ UNCHANGED <<obs, reader, hist, gen, pruner>>

\* ... the check of the progress marker and the read of the store.
ReadStore(t) ==
    /\ conc.on /\ conc.readers[t].pc = "store"
    /\ conc' = IF /\ conc.readers[t].op # "node"
                  /\ ~genMarker(Mem).nil
                  /\ BytesCompare(conc.readers[t].key, genMarker(Mem).key) > 0
               THEN [conc EXCEPT !.readers[t].pc = "done", !.readers[t].err = errNotCoveredYet]
               ELSE [conc EXCEPT !.readers[t].pc = "done",
                                 !.readers[t].blob = Lookup(diskdb[TableOf(conc.readers[t].op)],
                                                            conc.readers[t].key)]
    /\ StoreUnchanged /\ UNCHANGED <<obs, reader, hist, gen, pruner>>

\* ... the return, with the deferred dl.lock.RUnlock().
ReadReturn(t) ==
    /\ conc.on /\ conc.readers[t].pc = "done"
    /\ conc' = [conc EXCEPT !.readers[t] = IdleReader]
    /\ StoreUnchanged /\ UNCHANGED <<obs, reader, hist, gen, pruner>>

\* commit of the diff layer l that sits on the disk layer, up to markStale:
\* the history goes to the freezer.
CommitBegin(l, force) ==
    /\ conc.on /\ status = "running"
    /\ conc.writer.pc = "idle"
    /\ layers[l].kind = "diff" /\ layers[l].parent = disk
    /\ NumFree >= 1
    /\ freezer' = commitHistory(Mem, l).freezer
    /\ conc' = [conc EXCEPT !.writer = [pc |-> "history", op |-> "commit", dl |-> disk, bottom |-> l,
                                        force |-> forced(diskdb, oldest(Mem, l), force),
                                        m0 |-> Mem]]
    /\ UNCHANGED <<layers, disk, buffer, diskdb, generator, status, lastErr, trail, reverted, obs, reader, hist, gen, pruner>>

\* revert of the disk layer with the history of its state id, up to
\* markStale: the history is applied to the trie read through the layer.
RevertBegin ==
    /\ conc.on /\ status = "running"
    /\ conc.writer.pc = "idle"
    /\ NumFree >= 1
    /\ readHistory(freezer, layers[disk].id).err = ""
    /\ readHistory(freezer, layers[disk].id).h.root = layers[disk].root
    /\ layers[disk].id # 0
    /\ conc' = [conc EXCEPT !.writer =
                   [pc |-> "history", op |-> "revert", dl |-> disk,
                    h |-> readHistory(freezer, layers[disk].id).h,
                    ap |-> Apply(Mem, disk, readHistory(freezer, layers[disk].id).h.parent, layers[disk].root,
                                 hashedAccounts(readHistory(freezer, layers[disk].id).h),
                                 hashedStorages(readHistory(freezer, layers[disk].id).h))]]
    /\ StoreUnchanged /\ UNCHANGED <<obs, reader, hist, gen, pruner>>

\* markStale: under the write lock, panic if the flag is set, else set it.
WriterMark ==
    /\ conc.on /\ status = "running"
    /\ conc.writer.pc = "history"
    /\ CanLock(conc, conc.writer.dl)
    /\ IF layers[conc.writer.dl].stale
       THEN status' = "panic" /\ UNCHANGED layers
       ELSE layers' = markStale(Mem, conc.writer.dl).layers /\ UNCHANGED status
    /\ conc' = [conc EXCEPT !.writer.pc = "marked"]
    /\ UNCHANGED <<disk, buffer, diskdb, freezer, generator, lastErr, trail, reverted, obs, reader, hist, gen, pruner>>

\* commit: the lookups and the merge into the buffer.
CommitMerge ==
    /\ conc.on /\ status = "running"
    /\ conc.writer.pc = "marked" /\ conc.writer.op = "commit"
    /\ buffer' = commitMerge(Mem, conc.writer.dl, conc.writer.bottom).buffer
    /\ diskdb' = commitMerge(Mem, conc.writer.dl, conc.writer.bottom).diskdb
    /\ conc' = [conc EXCEPT !.writer.pc = "merged"]
    /\ UNCHANGED <<layers, disk, freezer, generator, status, lastErr, trail, reverted, obs, reader, hist, gen, pruner>>

\* Database.Update called by the driver, the one thread that also flattens
\* and reverts: never inside a commit or a revert.
DriverUpdate(p, w2) == conc.writer.pc = "idle" /\ Update(p, w2)

\* The writer is done: the layers on top of the flattened one are re-homed
\* onto the disk layer it returns.
WriterFinish(r, bottom) ==
    /\ Finish(r, r.ret, [x \in Refs |-> IF r.m.layers[x].kind = "diff" /\ r.m.layers[x].parent = bottom
                                        THEN [r.m.layers[x] EXCEPT !.parent = r.ret]
                                        ELSE r.m.layers[x]])
    /\ reverted' = None
    /\ conc' = [conc EXCEPT !.writer = IdleWriter]
    /\ UNCHANGED <<obs, reader, hist, gen, pruner>>

\* commit: the flush if due, the new disk layer, the truncation.
CommitEnd ==
    /\ conc.on /\ status = "running"
    /\ conc.writer.pc = "merged"
    /\ WriterFinish(commitMerged(Mem, conc.writer.bottom, conc.writer.force, conc.writer.m0, conc.writer.dl),
                    conc.writer.bottom)

\* revert: the write into the buffer or the store, and the new disk layer.
RevertEnd ==
    /\ conc.on /\ status = "running"
    /\ conc.writer.pc = "marked" /\ conc.writer.op = "revert"
    /\ WriterFinish(IF conc.writer.ap.panic THEN Panic(Mem)
                    ELSE IF conc.writer.ap.err # "" THEN Fail(Mem, conc.writer.ap.err)
                    ELSE revertWrite(Mem, conc.writer.dl, conc.writer.h, conc.writer.ap.nodes,
                                     hashedAccounts(conc.writer.h), hashedStorages(conc.writer.h)),
                    NoRef)

NextConc ==
    \/ \E p \in Refs, w2 \in Worlds : DriverUpdate(p, w2)
    \/ \E t \in Threads, dl \in Refs, target \in ReadTargets : ReadLock(t, dl, target)
    \/ \E t \in Threads : ReadBuffer(t)
    \/ \E t \in Threads : ReadStore(t)
    \/ \E t \in Threads : ReadReturn(t)
    \/ \E l \in Refs, force \in BOOLEAN : CommitBegin(l, force)
    \/ RevertBegin
    \/ WriterMark
    \/ CommitMerge
    \/ CommitEnd
    \/ RevertEnd

SpecConc == InitConc /\ [][NextConc]_vars

(***************************************************************************)
(* Readers that enter through any layer and walk down to the disk layer,   *)
(* beside the driver flattening the bottom diff layer.  A diff layer holds *)
(* its read lock while it asks its parent; the driver holds the write lock *)
(* of the layer it re-homes from before the flattening until the new       *)
(* parent is linked.                                                       *)
(***************************************************************************)
IdleWalker ==
    [pc |-> "idle", dl |-> NoRef, at |-> NoRef, start |-> NoRef, held |-> {}, fresh |-> FALSE,
     op |-> "", key |-> << >>, blob |-> << >>, err |-> ""]

\* The write lock of the diff layer x is held by the driver.
WriteLocked(c, x) == c.writer.pc # "idle" /\ c.writer.child = x

\* A faulty lock that lets the driver in beside the readers of the layer.
ReadHeldNever(c, x) == FALSE

\* The read lock of the layer x is held by a reader.
ReadHeld(c, x) == \E t \in Threads : x \in c.readers[t].held

\* One call of layer.node / account / storage on the layer x, up to the call
\* on the parent (a diff layer) or to the lookup in the buffer (a disk layer).
Visit(ls, r, x) ==
    IF ls[x].kind = "disk"
    THEN IF ls[x].stale
         THEN [r EXCEPT !.pc = "done", !.dl = x, !.at = x, !.held = @ \cup {x}, !.err = errSnapshotStale]
         ELSE [r EXCEPT !.pc = "buffer", !.dl = x, !.at = x, !.held = @ \cup {x}]
    ELSE IF r.key \in DOMAIN ls[x][TableOf(r.op)]
         THEN [r EXCEPT !.pc = "done", !.at = x, !.held = @ \cup {x},
                        !.blob = IF r.op = "node" THEN ls[x].nodes[r.key].blob ELSE ls[x][TableOf(r.op)][r.key]]
    ELSE [r EXCEPT !.pc = "walk", !.at = ls[x].parent, !.held = @ \cup {x}]

\* A read is started on a layer the reader holds a reference to.  It is
\* fresh when the layer is in the tree and the driver is not flattening.
WalkStart(t, l, target) ==
    /\ conc.on /\ status = "running"
    /\ conc.readers[t].pc = "idle"
    /\ layers[l].kind # "free"
    /\ ~WriteLocked(conc, l)
    /\ conc' = [conc EXCEPT !.readers[t] =
                   Visit(layers, [IdleWalker EXCEPT !.start = l, !.op = target[1], !.key = target[2],
                                                    !.fresh = InTree(l) /\ conc.writer.pc = "idle"], l)]
    /\ StoreUnchanged /\ UNCHANGED <<obs, reader, hist, gen, pruner>>

\* The call on the parent.
WalkStep(t) ==
    /\ conc.on /\ conc.readers[t].pc = "walk"
    /\ ~WriteLocked(conc, conc.readers[t].at)
    /\ conc' = [conc EXCEPT !.readers[t] = Visit(layers, @, conc.readers[t].at)]
    /\ StoreUnchanged /\ UNCHANGED <<obs, reader, hist, gen, pruner>>

\* The return through every layer visited, each releasing its read lock.
WalkReturn(t) ==
    /\ conc.on /\ conc.readers[t].pc = "done"
    /\ conc' = [conc EXCEPT !.readers[t] = IdleWalker]
    /\ StoreUnchanged /\ UNCHANGED <<obs, reader, hist, gen, pruner>>

\* The driver flattens the diff layer l that sits on the disk layer.  With
\* child = NoRef it is diffLayer.persist called on l itself; otherwise it is
\* persist called on the parent l of the layer `child`, whose write lock is
\* taken first.  Up to markStale: the history goes to the freezer.
FlattenBegin(l, child, force) ==
    /\ conc.on /\ status = "running"
    /\ conc.writer.pc = "idle"
    /\ layers[l].kind = "diff" /\ layers[l].parent = disk
    /\ child # NoRef => layers[child].kind = "diff" /\ layers[child].parent = l /\ ~ReadHeld(conc, child)
    /\ NumFree >= 1
    /\ freezer' = commitHistory(Mem, l).freezer
    /\ conc' = [conc EXCEPT !.writer = [pc |-> "history", op |-> "commit", dl |-> disk, bottom |-> l,
                                        child |-> child,
                                        force |-> forced(diskdb, oldest(Mem, l), force),
                                        m0 |-> Mem],
                            !.readers = [t \in Threads |-> [@[t] EXCEPT !.fresh = FALSE]]]
    /\ UNCHANGED <<layers, disk, buffer, diskdb, generator, status, lastErr, trail, reverted, obs, reader,
                   hist, gen, pruner>>

\* commit: the flush if due, the new disk layer, the truncation; then the
\* locked child is linked to the new disk layer and unlocked.
FlattenEnd ==
    /\ conc.on /\ status = "running"
    /\ conc.writer.pc = "merged"
    /\ Finish(commitMerged(Mem, conc.writer.bottom, conc.writer.force, conc.writer.m0, conc.writer.dl),
              commitMerged(Mem, conc.writer.bottom, conc.writer.force, conc.writer.m0, conc.writer.dl).ret,
              [x \in Refs |->
                  IF x = conc.writer.child
                  THEN [layers[x] EXCEPT !.parent =
                           commitMerged(Mem, conc.writer.bottom, conc.writer.force, conc.writer.m0,
                                        conc.writer.dl).ret]
                  ELSE commitMerged(Mem, conc.writer.bottom, conc.writer.force, conc.writer.m0,
                                    conc.writer.dl).m.layers[x]])
    /\ reverted' = None
    /\ conc' = [conc EXCEPT !.writer = IdleWriter]
    /\ UNCHANGED <<obs, reader, hist, gen, pruner>>

InitOrder ==
    /\ InitStore
    /\ diskdb = StoreOf(CHOOSE w \in InitWorlds : w # EmptyWorld)
    /\ freezer.enabled /\ freezer.limit = 0
    /\ reader = NoReader /\ Idle
    /\ conc = [on |-> TRUE, readers |-> [t \in Threads |-> IdleWalker], writer |-> IdleWriter]

NextOrder ==
    \/ \E p \in Refs, w2 \in Worlds : DriverUpdate(p, w2)
    \/ \E t \in Threads, l \in Refs, target \in ReadTargets : WalkStart(t, l, target)
    \/ \E t \in Threads : WalkStep(t)
    \/ \E t \in Threads : ReadBuffer(t)
    \/ \E t \in Threads : ReadStore(t)
    \/ \E t \in Threads : WalkReturn(t)
    \/ \E l \in Refs, child \in Refs \cup {NoRef}, force \in BOOLEAN : FlattenBegin(l, child, force)
    \/ WriterMark
    \/ CommitMerge
    \/ FlattenEnd

SpecOrder == InitOrder /\ [][NextOrder]_vars

(***************************************************************************)
(* A persist taken one store write at a time, with the process crashing    *)
(* between any two of them.  The memory is lost in a crash; the key-value  *)
(* store and the freezer keep what had been written.                       *)
(***************************************************************************)
\* commit: rawdb.WriteStateID(dl.db.diskdb, dl.root, 0) when dl.id is zero,
\* written to the store directly.
PersistLookupBase ==
    /\ conc.on /\ status = "running"
    /\ conc.writer.pc = "marked"
    /\ diskdb' = IF layers[conc.writer.dl].id = 0
                 THEN WriteStateID(diskdb, layers[conc.writer.dl].root, 0)
                 ELSE diskdb
    /\ conc' = [conc EXCEPT !.writer.pc = "base"]
    /\ UNCHANGED <<layers, disk, buffer, freezer, generator, status, lastErr, trail, reverted, obs, reader,
                   hist, gen, pruner>>

\* commit: rawdb.WriteStateID(dl.db.diskdb, bottom.rootHash(), bottom.stateID()),
\* written to the store directly.
PersistLookup ==
    /\ conc.on /\ status = "running"
    /\ conc.writer.pc = "base"
    /\ diskdb' = WriteStateID(diskdb, layers[conc.writer.bottom].root, layers[conc.writer.bottom].id)
    /\ conc' = [conc EXCEPT !.writer.pc = "lookup"]
    /\ UNCHANGED <<layers, disk, buffer, freezer, generator, status, lastErr, trail, reverted, obs, reader,
                   hist, gen, pruner>>

\* commit: the forced flush is decided, the bottom layer is merged into the buffer.
PersistMerge ==
    /\ conc.on /\ status = "running"
    /\ conc.writer.pc = "lookup"
    /\ buffer' = bufferCommit(buffer, layers[conc.writer.bottom].nodes, layers[conc.writer.bottom].accounts,
                              layers[conc.writer.bottom].storages)
    /\ conc' = [conc EXCEPT !.writer.pc = "merged"]
    /\ UNCHANGED <<layers, disk, diskdb, freezer, generator, status, lastErr, trail, reverted, obs, reader,
                   hist, gen, pruner>>

\* commit: the flush of the buffer in one batch, when it is full or forced.
PersistFlush ==
    /\ conc.on /\ status = "running"
    /\ conc.writer.pc = "merged"
    /\ buffer' = commitFlush(Mem, conc.writer.bottom, conc.writer.force).m.buffer
    /\ diskdb' = commitFlush(Mem, conc.writer.bottom, conc.writer.force).m.diskdb
    /\ lastErr' = commitFlush(Mem, conc.writer.bottom, conc.writer.force).err
    /\ conc' = IF commitFlush(Mem, conc.writer.bottom, conc.writer.force).err # ""
               THEN [conc EXCEPT !.writer = IdleWriter]
               ELSE [conc EXCEPT !.writer.pc = "flushed", !.writer.force = full(buffer) \/ conc.writer.force]
    /\ UNCHANGED <<layers, disk, freezer, generator, status, trail, reverted, obs, reader, hist, gen, pruner>>

\* commit: the new disk layer and the truncation of the freezer.
PersistEnd ==
    /\ conc.on /\ status = "running"
    /\ conc.writer.pc = "flushed"
    /\ WriterFinish(commitFlushed([m |-> Mem, err |-> ""], conc.writer.bottom, conc.writer.force,
                                  conc.writer.m0, conc.writer.dl),
                    conc.writer.bottom)

\* The process dies inside commit.
Crash ==
    /\ conc.on /\ status = "running"
    /\ conc.writer.pc # "idle"
    /\ status' = "crashed"
    /\ UNCHANGED <<layers, disk, buffer, diskdb, freezer, generator, lastErr, trail, reverted, obs, reader,
                   conc, hist, gen, pruner>>

InitCrash ==
    /\ InitStore
    /\ reader = NoReader /\ Idle
    /\ conc = [on |-> TRUE, readers |-> [t \in Threads |-> IdleReader], writer |-> IdleWriter]

NextCrash ==
    \/ \E p \in Refs, w2 \in Worlds : DriverUpdate(p, w2)
    \/ \E l \in Refs, force \in BOOLEAN : CommitBegin(l, force)
    \/ WriterMark
    \/ PersistLookupBase
    \/ PersistLookup
    \/ PersistMerge
    \/ PersistFlush
    \/ PersistEnd
    \/ Crash

SpecCrash == InitCrash /\ [][NextCrash]_vars

(***************************************************************************)
(* The state history and its four byte streams.  One unit of a stream      *)
(* stands for one field of an index or one byte of data.                   *)
(***************************************************************************)
\* Addresses of a history; 0 is the zero address.
HistAddrs == {0, 1}

\* Slot hashes of a history: outputs of the hash function, never zero.
HistSlots == {1, 2}

AccountDatas == {<< >>, <<7>>}

SlotDatas == {<< >>, <<8>>}

\* Values a damaged unit can take.
Units == 0..3

\* The number of damages done to the streams read back from the freezer.
MaxEdits == 1

\* accountIndex: address, length, offset, storageOffset, storageSlots.
accountIndexSize == 5

\* slotIndex: hash, length, offset.
slotIndexSize == 3

Uint8(n) == n % 256

\* uint32 arithmetic wraps at 2^32, beyond the integers of the checker and
\* beyond the length of any stream here: below that bound it is the value.
Uint32(n) == n

\* slices.SortFunc over a set of addresses or of hashes.
RECURSIVE SortSet(_)
SortSet(S) ==
    IF S = {} THEN << >>
    ELSE <<CHOOSE x \in S : \A y \in S : x <= y>> \o SortSet(S \ {CHOOSE x \in S : \A y \in S : x <= y})

\* New: the maps as given, with the sorted lists built from their keys.
New(accounts, storages) ==
    [accounts |-> accounts,
     accountList |-> SortSet(DOMAIN accounts),
     storages |-> storages,
     storageList |-> [a \in DOMAIN storages |-> SortSet(DOMAIN storages[a])]]

\* accountIndex.encode / slotIndex.encode and their decode: fixed-size records.
accountIndexEncode(ix) == <<ix.address, ix.length, ix.offset, ix.storageOffset, ix.storageSlots>>

accountIndexDecode(b) ==
    [address |-> b[1], length |-> b[2], offset |-> b[3], storageOffset |-> b[4], storageSlots |-> b[5]]

slotIndexEncode(ix) == <<ix.hash, ix.length, ix.offset>>

slotIndexDecode(b) == [hash |-> b[1], length |-> b[2], offset |-> b[3]]

\* A faulty inner loop: every slot index carries the offset zero.
RECURSIVE encodeSlotsZeroOffset(_, _, _, _)
encodeSlotsZeroOffset(slots, list, j, e) ==
    IF j > Len(list) THEN e
    ELSE encodeSlotsZeroOffset(slots, list, j + 1,
                               [e EXCEPT !.storageData = @ \o slots[list[j]],
                                         !.storageIndexes = @ \o slotIndexEncode([hash |-> list[j],
                                                                                 length |-> Uint8(Len(slots[list[j]])),
                                                                                 offset |-> 0])])

\* encode: the inner loop over the sorted slots of one account.
RECURSIVE encodeSlots(_, _, _, _)
encodeSlots(slots, list, j, e) ==
    IF j > Len(list) THEN e
    ELSE encodeSlots(slots, list, j + 1,
                     [e EXCEPT !.storageData = @ \o slots[list[j]],
                               !.storageIndexes = @ \o slotIndexEncode([hash |-> list[j],
                                                                       length |-> Uint8(Len(slots[list[j]])),
                                                                       offset |-> Uint32(Len(e.storageData))])])

\* encode: the outer loop over the sorted accounts.
RECURSIVE encodeAccounts(_, _, _)
encodeAccounts(h, i, e) ==
    IF i > Len(h.accountList) THEN e
    ELSE encodeAccounts(h, i + 1,
             IF h.accountList[i] \in DOMAIN h.storages
             THEN [encodeSlots(h.storages[h.accountList[i]], h.storageList[h.accountList[i]], 1, e)
                      EXCEPT !.slotNumber = Uint32(@ + Cardinality(DOMAIN h.storages[h.accountList[i]])),
                             !.accountData = @ \o h.accounts[h.accountList[i]],
                             !.accountIndexes = @ \o accountIndexEncode(
                                 [address |-> h.accountList[i],
                                  length |-> Uint8(Len(h.accounts[h.accountList[i]])),
                                  offset |-> Uint32(Len(e.accountData)),
                                  storageOffset |-> e.slotNumber,
                                  storageSlots |-> Uint32(Cardinality(DOMAIN h.storages[h.accountList[i]]))])]
             ELSE [e EXCEPT !.accountData = @ \o h.accounts[h.accountList[i]],
                            !.accountIndexes = @ \o accountIndexEncode(
                                [address |-> h.accountList[i],
                                 length |-> Uint8(Len(h.accounts[h.accountList[i]])),
                                 offset |-> Uint32(Len(e.accountData)),
                                 storageOffset |-> 0,
                                 storageSlots |-> 0])])

\* History.encode: the four streams.
encode(h) ==
    [accountData |-> encodeAccounts(h, 1, [slotNumber |-> 0, accountData |-> << >>, storageData |-> << >>,
                                           accountIndexes |-> << >>, storageIndexes |-> << >>]).accountData,
     storageData |-> encodeAccounts(h, 1, [slotNumber |-> 0, accountData |-> << >>, storageData |-> << >>,
                                           accountIndexes |-> << >>, storageIndexes |-> << >>]).storageData,
     accountIndexes |-> encodeAccounts(h, 1, [slotNumber |-> 0, accountData |-> << >>, storageData |-> << >>,
                                              accountIndexes |-> << >>, storageIndexes |-> << >>]).accountIndexes,
     storageIndexes |-> encodeAccounts(h, 1, [slotNumber |-> 0, accountData |-> << >>, storageData |-> << >>,
                                              accountIndexes |-> << >>, storageIndexes |-> << >>]).storageIndexes]

\* The decoder over four streams, its cursors at the start.
newDecoder(st) ==
    [accountData |-> st.accountData, storageData |-> st.storageData,
     accountIndexes |-> st.accountIndexes, storageIndexes |-> st.storageIndexes,
     lastAccountSet |-> FALSE, lastAccount |-> 0,
     lastAccountRead |-> 0, lastSlotIndexRead |-> 0, lastSlotDataRead |-> 0]

\* decoder.verify
verify(r) ==
    IF Len(r.accountIndexes) % accountIndexSize # 0 \/ Len(r.accountIndexes) = 0
    THEN "invalid account index"
    ELSE IF Len(r.storageIndexes) % slotIndexSize # 0 THEN "invalid storage index"
    ELSE ""

\* decoder.readAccount at position pos (from zero).
readAccount(r, pos) ==
    IF (pos + 1) * accountIndexSize > Len(r.accountIndexes)
    THEN [r |-> r, err |-> "account data buffer is corrupted"]
    ELSE IF r.lastAccountSet /\
            r.lastAccount >= accountIndexDecode(SubSeq(r.accountIndexes, pos * accountIndexSize + 1,
                                                       (pos + 1) * accountIndexSize)).address
         THEN [r |-> r, err |-> "account is not in order"]
    ELSE IF accountIndexDecode(SubSeq(r.accountIndexes, pos * accountIndexSize + 1,
                                      (pos + 1) * accountIndexSize)).offset # r.lastAccountRead
         THEN [r |-> r, err |-> "account data buffer is gaped"]
    ELSE IF Uint32(Len(r.accountData)) <
               Uint32(accountIndexDecode(SubSeq(r.accountIndexes, pos * accountIndexSize + 1,
                                                (pos + 1) * accountIndexSize)).offset
                      + accountIndexDecode(SubSeq(r.accountIndexes, pos * accountIndexSize + 1,
                                                  (pos + 1) * accountIndexSize)).length)
         THEN [r |-> r, err |-> "account data buffer is corrupted"]
    ELSE [index |-> accountIndexDecode(SubSeq(r.accountIndexes, pos * accountIndexSize + 1,
                                              (pos + 1) * accountIndexSize)),
          data |-> SubSeq(r.accountData,
                          accountIndexDecode(SubSeq(r.accountIndexes, pos * accountIndexSize + 1,
                                                    (pos + 1) * accountIndexSize)).offset + 1,
                          Uint32(accountIndexDecode(SubSeq(r.accountIndexes, pos * accountIndexSize + 1,
                                                           (pos + 1) * accountIndexSize)).offset
                                 + accountIndexDecode(SubSeq(r.accountIndexes, pos * accountIndexSize + 1,
                                                             (pos + 1) * accountIndexSize)).length)),
          r |-> [r EXCEPT !.lastAccountSet = TRUE,
                          !.lastAccount = accountIndexDecode(SubSeq(r.accountIndexes, pos * accountIndexSize + 1,
                                                                    (pos + 1) * accountIndexSize)).address,
                          !.lastAccountRead =
                              Uint32(accountIndexDecode(SubSeq(r.accountIndexes, pos * accountIndexSize + 1,
                                                               (pos + 1) * accountIndexSize)).offset
                                     + accountIndexDecode(SubSeq(r.accountIndexes, pos * accountIndexSize + 1,
                                                                 (pos + 1) * accountIndexSize)).length)],
          err |-> ""]

\* readStorage: one turn of the loop, on the slot index at [start, end).
readSlot(r, last, start, end) ==
    IF start # r.lastSlotIndexRead THEN [r |-> r, err |-> "storage index buffer is gapped"]
    ELSE IF Uint32(Len(r.storageIndexes)) < end THEN [r |-> r, err |-> "storage index buffer is corrupted"]
    ELSE IF last >= slotIndexDecode(SubSeq(r.storageIndexes, start + 1, end)).hash
         THEN [r |-> r, err |-> "storage slot is not in order"]
    ELSE IF slotIndexDecode(SubSeq(r.storageIndexes, start + 1, end)).offset # r.lastSlotDataRead
         THEN [r |-> r, err |-> "storage data buffer is gapped"]
    ELSE IF Uint32(Len(r.storageData)) <
               Uint32(slotIndexDecode(SubSeq(r.storageIndexes, start + 1, end)).offset
                      + slotIndexDecode(SubSeq(r.storageIndexes, start + 1, end)).length)
         THEN [r |-> r, err |-> "storage data buffer is corrupted"]
    ELSE [hash |-> slotIndexDecode(SubSeq(r.storageIndexes, start + 1, end)).hash,
          data |-> SubSeq(r.storageData, r.lastSlotDataRead + 1,
                          Uint32(slotIndexDecode(SubSeq(r.storageIndexes, start + 1, end)).offset
                                 + slotIndexDecode(SubSeq(r.storageIndexes, start + 1, end)).length)),
          r |-> [r EXCEPT !.lastSlotIndexRead = end,
                          !.lastSlotDataRead =
                              Uint32(slotIndexDecode(SubSeq(r.storageIndexes, start + 1, end)).offset
                                     + slotIndexDecode(SubSeq(r.storageIndexes, start + 1, end)).length)],
          err |-> ""]

\* decoder.readStorage: the loop over the slots of one account from turn j,
\* with the last hash, the list and the map built so far.
RECURSIVE readStorageFrom(_, _, _, _, _, _)
readStorageFrom(r, accIndex, j, last, list, slots) ==
    IF j >= accIndex.storageSlots THEN [list |-> list, storage |-> slots, r |-> r, err |-> ""]
    ELSE IF readSlot(r, last, Uint32((accIndex.storageOffset + j) * slotIndexSize),
                     Uint32((accIndex.storageOffset + j + 1) * slotIndexSize)).err # ""
         THEN [list |-> << >>, storage |-> << >>, r |-> r,
               err |-> readSlot(r, last, Uint32((accIndex.storageOffset + j) * slotIndexSize),
                                Uint32((accIndex.storageOffset + j + 1) * slotIndexSize)).err]
    ELSE readStorageFrom(
             readSlot(r, last, Uint32((accIndex.storageOffset + j) * slotIndexSize),
                      Uint32((accIndex.storageOffset + j + 1) * slotIndexSize)).r,
             accIndex, j + 1,
             readSlot(r, last, Uint32((accIndex.storageOffset + j) * slotIndexSize),
                      Uint32((accIndex.storageOffset + j + 1) * slotIndexSize)).hash,
             Append(list, readSlot(r, last, Uint32((accIndex.storageOffset + j) * slotIndexSize),
                                   Uint32((accIndex.storageOffset + j + 1) * slotIndexSize)).hash),
             Merge(slots,
                   [k \in {readSlot(r, last, Uint32((accIndex.storageOffset + j) * slotIndexSize),
                                    Uint32((accIndex.storageOffset + j + 1) * slotIndexSize)).hash} |->
                       readSlot(r, last, Uint32((accIndex.storageOffset + j) * slotIndexSize),
                                Uint32((accIndex.storageOffset + j + 1) * slotIndexSize)).data]))

\* A faulty readStorage: the slot index cursor is moved to where the account
\* says its slots begin.
readStorageRewind(r, accIndex) ==
    readStorageFrom([r EXCEPT !.lastSlotIndexRead = Uint32(accIndex.storageOffset * slotIndexSize)],
                    accIndex, 0, 0, << >>, EmptyMap)

\* The last hash starts as the zero hash.
readStorage(r, accIndex) == readStorageFrom(r, accIndex, 0, 0, << >>, EmptyMap)

\* decode: the account at position i is in the history; its slots follow.
decodeStorage(h, ix, rs) ==
    IF Len(rs.list) > 0
    THEN [h EXCEPT !.storageList = Merge(@, [a \in {ix.address} |-> rs.list]),
                   !.storages = Merge(@, [a \in {ix.address} |-> rs.storage])]
    ELSE h

\* History.decode: the loop over the account indexes from position i, with
\* the history built so far; h0 is the history the receiver held before.
RECURSIVE decodeFrom(_, _, _, _)
decodeFrom(r, i, h, h0) ==
    IF i >= Len(r.accountIndexes) \div accountIndexSize THEN [h |-> h, err |-> ""]
    ELSE IF readAccount(r, i).err # "" THEN [h |-> h0, err |-> readAccount(r, i).err]
    ELSE IF readStorage(readAccount(r, i).r, readAccount(r, i).index).err # ""
         THEN [h |-> h0, err |-> readStorage(readAccount(r, i).r, readAccount(r, i).index).err]
    ELSE decodeFrom(readStorage(readAccount(r, i).r, readAccount(r, i).index).r, i + 1,
                    decodeStorage([h EXCEPT !.accounts = Merge(@, [a \in {readAccount(r, i).index.address} |->
                                                                      readAccount(r, i).data]),
                                            !.accountList = Append(@, readAccount(r, i).index.address)],
                                  readAccount(r, i).index,
                                  readStorage(readAccount(r, i).r, readAccount(r, i).index)),
                    h0)

\* The history of a receiver that holds its meta data only.
NoHistory == [accounts |-> EmptyMap, accountList |-> << >>, storages |-> EmptyMap, storageList |-> EmptyMap]

decode(h0, st) ==
    IF verify(newDecoder(st)) # "" THEN [h |-> h0, err |-> verify(newDecoder(st))]
    ELSE decodeFrom(newDecoder(st), 0, NoHistory, h0)

\* The histories: any accounts with their data, and for any of them any
\* slots with their data.
Histories ==
    {New(accounts, storages) :
        accounts \in UNION {[A -> AccountDatas] : A \in SUBSET HistAddrs},
        storages \in UNION {[A -> UNION {[S -> SlotDatas] : S \in SUBSET HistSlots}] : A \in SUBSET HistAddrs}}

StreamNames == {"accountData", "storageData", "accountIndexes", "storageIndexes"}

\* The store stands still while a history is encoded and decoded.
StoreParked ==
    /\ InitStore
    /\ diskdb = StoreOf(EmptyWorld)
    /\ ~freezer.enabled
    /\ reader = NoReader /\ conc = NoConc

HistUnchanged ==
    UNCHANGED <<layers, disk, buffer, diskdb, freezer, generator, status, lastErr, trail, reverted, obs, reader,
                conc, gen, pruner>>

InitHistory ==
    /\ StoreParked
    /\ gen = NoGen /\ pruner = NoPruner
    /\ \E h \in Histories :
          /\ DOMAIN h.storages \subseteq DOMAIN h.accounts
          /\ hist = [on |-> TRUE, pc |-> "new", h |-> h, st |-> encode(NoHistory), edits |-> 0,
                     res |-> [h |-> NoHistory, err |-> ""]]

\* Write: the history is encoded and its streams go to the freezer.
HistEncode ==
    /\ hist.on /\ hist.pc = "new"
    /\ hist' = [hist EXCEPT !.pc = "stored", !.st = encode(hist.h)]
    /\ HistUnchanged

\* Damage to a stored stream: a unit of an index is overwritten.
HistSetUnit(name, i, v) ==
    /\ hist.on /\ hist.pc = "stored" /\ hist.edits < MaxEdits
    /\ name \in {"accountIndexes", "storageIndexes"}
    /\ i \in 1..Len(hist.st[name])
    /\ hist.st[name][i] # v
    /\ hist' = [hist EXCEPT !.st[name][i] = v, !.edits = @ + 1]
    /\ HistUnchanged

\* Damage to a stored stream: a unit is added at its end.
HistAppend(name, v) ==
    /\ hist.on /\ hist.pc = "stored" /\ hist.edits < MaxEdits
    /\ hist' = [hist EXCEPT !.st[name] = Append(@, v), !.edits = @ + 1]
    /\ HistUnchanged

\* Damage to a stored stream: its last unit is lost.
HistDrop(name) ==
    /\ hist.on /\ hist.pc = "stored" /\ hist.edits < MaxEdits
    /\ Len(hist.st[name]) > 0
    /\ hist' = [hist EXCEPT !.st[name] = SubSeq(@, 1, Len(@) - 1), !.edits = @ + 1]
    /\ HistUnchanged

\* Read: the streams are decoded into a receiver that holds no history yet.
HistDecode ==
    /\ hist.on /\ hist.pc = "stored"
    /\ hist' = [hist EXCEPT !.pc = "decoded", !.res = decode(NoHistory, hist.st)]
    /\ HistUnchanged

NextHistory ==
    \/ HistEncode
    \/ \E name \in StreamNames, i \in 1..(2 * accountIndexSize + 4 * slotIndexSize), v \in Units :
          HistSetUnit(name, i, v)
    \/ \E name \in StreamNames, v \in Units : HistAppend(name, v)
    \/ \E name \in StreamNames : HistDrop(name)
    \/ HistDecode

SpecHistory == InitHistory /\ [][NextHistory]_vars

(***************************************************************************)
(* The freezer of state histories, written at its head and truncated from  *)
(* either end.                                                             *)
(***************************************************************************)
\* The largest id a history is written under.
MaxHistories == 3

\* State roots of the histories written.
HistRoots == {<<91>>, <<92>>, <<93>>}

NoTruncation == [on |-> FALSE, op |-> "none"]

FreezerUnchanged ==
    UNCHANGED <<layers, disk, buffer, generator, status, lastErr, trail, reverted, obs, reader, conc, gen, pruner>>

InitFreezer ==
    /\ InitStore
    /\ diskdb = StoreOf(EmptyWorld)
    /\ freezer.enabled /\ freezer.limit = 0
    /\ reader = NoReader /\ conc = NoConc
    /\ gen = NoGen /\ pruner = NoPruner
    /\ hist = NoTruncation

\* Write and the lookup of the new history: the next id, a root other than
\* the root of the history before.
FreezerWrite(root) ==
    /\ ~hist.on
    /\ freezer.tail + Len(freezer.items) < MaxHistories
    /\ Len(freezer.items) > 0 => freezer.items[Len(freezer.items)].root # root
    /\ freezer' = [freezer EXCEPT !.items = Append(@, [parent |-> IF Len(freezer.items) > 0
                                                                  THEN freezer.items[Len(freezer.items)].root
                                                                  ELSE EmptyRootHash,
                                                      root |-> root,
                                                      block |-> freezer.tail + Len(freezer.items) + 1,
                                                      accounts |-> EmptyMap, storages |-> EmptyMap])]
    /\ diskdb' = WriteStateID(diskdb, root, freezer.tail + Len(freezer.items) + 1)
    /\ hist' = NoTruncation
    /\ FreezerUnchanged

\* TruncateHead with any target.
TruncateHead(nhead) ==
    /\ ~hist.on
    /\ diskdb' = truncateFromHead(diskdb, freezer, nhead).db
    /\ freezer' = truncateFromHead(diskdb, freezer, nhead).fr
    /\ hist' = [on |-> FALSE, op |-> "head", target |-> nhead, fr |-> freezer, db |-> diskdb,
                n |-> truncateFromHead(diskdb, freezer, nhead).n,
                err |-> truncateFromHead(diskdb, freezer, nhead).err]
    /\ FreezerUnchanged

\* TruncateTail with any target.
TruncateTail(ntail) ==
    /\ ~hist.on
    /\ diskdb' = truncateFromTail(diskdb, freezer, ntail).db
    /\ freezer' = truncateFromTail(diskdb, freezer, ntail).fr
    /\ hist' = [on |-> FALSE, op |-> "tail", target |-> ntail, fr |-> freezer, db |-> diskdb,
                n |-> truncateFromTail(diskdb, freezer, ntail).n,
                err |-> truncateFromTail(diskdb, freezer, ntail).err]
    /\ FreezerUnchanged

NextFreezer ==
    \/ \E root \in HistRoots : FreezerWrite(root)
    \/ \E nhead \in 0..(MaxHistories + 1) : TruncateHead(nhead)
    \/ \E ntail \in 0..(MaxHistories + 1) : TruncateTail(ntail)

SpecFreezer == InitFreezer /\ [][NextFreezer]_vars

(***************************************************************************)
(* The snapshot generator: it walks the account trie and the storage tries *)
(* in key order, repairs the flat tables from them, and records how far it *)
(* got in a marker written with the same batch as the rows.                *)
(***************************************************************************)
HashLength == 1

accountCheckRange == 128

storageCheckRange == 1024

\* The batch size above which checkAndFlush writes; the batch's ValueSize is
\* counted in operations.
IdealBatchSize == 1

\* How often one generation is interrupted, and how many state transitions
\* are flushed into the store while it is stopped.
MaxAborts == 2

MaxFlushes == 1

NilKey == [nil |-> TRUE, key |-> << >>]

SomeKey(k) == [nil |-> FALSE, key |-> k]

RECURSIVE SortKeys(_)
SortKeys(S) ==
    IF S = {} THEN << >>
    ELSE LET m == CHOOSE x \in S : \A y \in S : BytesCompare(x, y) <= 0
         IN <<m>> \o SortKeys(S \ {m})

\* The root a stack trie computes from sorted keys and their values.
RECURSIVE StackTrieHash(_, _)
StackTrieHash(keys, vals) ==
    IF keys = << >> THEN EmptyRootHash
    ELSE Hash(keys[1] \o vals[1] \o Tail(StackTrieHash(Tail(keys), Tail(vals))))

\* The root of a trie given by its entries.
TrieRoot(trie) ==
    LET keys == SortKeys(DOMAIN trie)
    IN StackTrieHash(keys, [i \in 1..Len(keys) |-> trie[keys[i]]])

\* A faulty increaseKey that hands the key back as it is.
increaseKeySame(key) == SomeKey(key)

\* increaseKey: the key plus one as a big-endian number, nil when it wraps.
RECURSIVE increaseKey(_)
increaseKey(key) ==
    IF key = << >> THEN NilKey
    ELSE LET i == Len(key)
             b == (key[i] + 1) % 256
         IN IF b # 0 THEN SomeKey([key EXCEPT ![i] = b])
            ELSE LET up == increaseKey(SubSeq(key, 1, i - 1))
                 IN IF up.nil THEN NilKey ELSE SomeKey(up.key \o <<0>>)

\* The states the generator works on: accounts with up to two slots.
GenSlots == {1, 2}

GenWorlds ==
    {w \in [bal : [Addrs -> Bals \cup {0}], slot : [Addrs \X GenSlots -> SlotVals \cup {0}]] :
        \A a \in Addrs : w.bal[a] = 0 => \A s \in GenSlots : w.slot[<<a, s>>] = 0}

GenSlotOfHash(h) == CHOOSE s \in GenSlots : SlotHash(s) = h

GenHasStorage(w, a) == \E s \in GenSlots : w.slot[<<a, s>>] # 0

\* The storage trie of an account: hashed slot to value.
StorageTrie(w, acct) ==
    [h \in {SlotHash(s) : s \in {x \in GenSlots : w.slot[<<AddrOfHash(acct), x>>] # 0}} |->
        SlotBlob(w.slot[<<AddrOfHash(acct), GenSlotOfHash(h)>>])]

GenStorageRoot(w, a) == TrieRoot(StorageTrie(w, AddrHash(a)))

\* The slim account of the flat table, empty when the account does not exist.
GenAccountBlob(w, a) == IF w.bal[a] = 0 THEN << >> ELSE SlimAccount(w.bal[a], GenStorageRoot(w, a))

\* The account trie of a state: hashed address to full account.
AccountTrie(w) ==
    [h \in {AddrHash(a) : a \in {x \in Addrs : w.bal[x] # 0}} |->
        <<w.bal[AddrOfHash(h)]>> \o GenStorageRoot(w, AddrOfHash(h))]

\* The accounts and slots a transition changes, with their new values.
GenStateSet(w, w2) ==
    [accounts |-> [h \in {AddrHash(a) : a \in {x \in Addrs : GenAccountBlob(w, x) # GenAccountBlob(w2, x)}} |->
                     GenAccountBlob(w2, AddrOfHash(h))],
     storages |-> [h \in {StorageKey(k[1], k[2]) : k \in {x \in Addrs \X GenSlots : w.slot[x] # w2.slot[x]}} |->
                     SlotBlob(w2.slot[<<AddrOfHash(<<h[1]>>), GenSlotOfHash(<<h[2]>>)>>])]]

\* The transitions that touch one account.
GenSteps(w) ==
    {w2 \in GenWorlds : Cardinality({a \in Addrs : w2.bal[a] # w.bal[a] \/
                                         \E s \in GenSlots : w2.slot[<<a, s>>] # w.slot[<<a, s>>]}) = 1}

\* The slim encoding of a decoded account leaf.
SlimAccountRLP(val) == SlimAccount(val[1], AccountRoot(val))

\* The range proof of the trie over keys and vals from origin: it holds when
\* the trie has exactly these entries between origin and the last key, and
\* cont tells whether the trie has entries after the last key.
VerifyRangeProof(trie, origin, keys, vals) ==
    LET from == {k \in DOMAIN trie : BytesCompare(k, origin) >= 0}
        seg == IF keys = << >> THEN from
               ELSE {k \in from : BytesCompare(k, keys[Len(keys)]) <= 0}
        same == /\ seg = {keys[i] : i \in 1..Len(keys)}
                /\ \A i \in 1..Len(keys) : trie[keys[i]] = vals[i]
    IN [ok |-> same, cont |-> same /\ keys # << >> /\ from # seg]

\* proveRange: rows are the keys the iterator still has to yield, in order,
\* flat their converted values; the keys of the result have the prefix removed.
proveRange(prefix, rows, flat, trie, origin, max) ==
    LET min == prefix \o (IF origin.nil THEN << >> ELSE origin.key)
        under(k) == Len(k) >= Len(prefix) /\ SubSeq(k, 1, Len(prefix)) = prefix
        run == IF rows # << >> /\ under(rows[1]) THEN SelectSeq(rows, under) ELSE << >>
        n == IF Len(run) > max THEN max ELSE Len(run)
        keys == [i \in 1..n |-> SubSeq(run[i], Len(prefix) + 1, Len(run[i]))]
        vals == [i \in 1..n |-> flat[run[i]]]
        diskMore == Len(run) > max
        proof == VerifyRangeProof(trie, IF origin.nil THEN <<0>> ELSE origin.key, keys, vals)
    IN IF rows # << >> /\ BytesCompare(rows[1], min) < 0
       THEN [err |-> "invalid iteration position", keys |-> << >>, vals |-> << >>,
             diskMore |-> FALSE, trieMore |-> FALSE, valid |-> FALSE]
       ELSE IF origin.nil /\ ~diskMore
       THEN [err |-> "", keys |-> keys, vals |-> vals, diskMore |-> FALSE, trieMore |-> FALSE,
             valid |-> StackTrieHash(keys, vals) = TrieRoot(trie)]
       ELSE [err |-> "", keys |-> keys, vals |-> vals, diskMore |-> diskMore,
             trieMore |-> proof.cont, valid |-> proof.ok]

NoValue == << >>

onState(key, val, write, delete) == [key |-> key, val |-> val, write |-> write, delete |-> delete]

\* A faulty regeneration: every trie entry is written, the flat rows are not
\* looked at.
regenerateFromTrie(tkeys, trie, kvkeys, kvvals) ==
    [i \in 1..Len(tkeys) |-> onState(tkeys[i], trie[tkeys[i]], TRUE, FALSE)]

\* The calls generateRange makes when the range is outdated: the trie's
\* entries from origin up to the last flat key, each preceded by the flat keys
\* below it, which are deleted, and followed by the flat keys left over.
RECURSIVE regenerate(_, _, _, _)
regenerate(tkeys, trie, kvkeys, kvvals) ==
    IF tkeys = << >>
    THEN [i \in 1..Len(kvkeys) |-> onState(kvkeys[i], NoValue, FALSE, TRUE)]
    ELSE IF kvkeys # << >> /\ BytesCompare(kvkeys[1], tkeys[1]) < 0
    THEN <<onState(kvkeys[1], NoValue, FALSE, TRUE)>> \o regenerate(tkeys, trie, Tail(kvkeys), Tail(kvvals))
    ELSE IF kvkeys # << >> /\ BytesCompare(kvkeys[1], tkeys[1]) = 0
    THEN <<onState(tkeys[1], trie[tkeys[1]], kvvals[1] # trie[tkeys[1]], FALSE)>>
         \o regenerate(Tail(tkeys), trie, Tail(kvkeys), Tail(kvvals))
    ELSE <<onState(tkeys[1], trie[tkeys[1]], TRUE, FALSE)>> \o regenerate(Tail(tkeys), trie, kvkeys, kvvals)

\* generateRange: the callbacks of one range in order, whether the range
\* ends the table and the trie, the last flat key of the range and the
\* number of rows taken from the iterator.
generateRange(prefix, rows, flat, trie, origin, max) ==
    LET result == proveRange(prefix, rows, flat, trie, origin, max)
        last == IF result.keys = << >> THEN NilKey ELSE SomeKey(result.keys[Len(result.keys)])
        from == {k \in DOMAIN trie : origin.nil \/ BytesCompare(k, origin.key) >= 0}
        upto == {k \in from : last.nil \/ BytesCompare(k, last.key) <= 0}
        trieMore == upto # from
    IN IF result.err # ""
       THEN [err |-> result.err, calls |-> << >>, exhausted |-> FALSE, last |-> NilKey, n |-> 0]
       ELSE IF result.valid
       THEN [err |-> "",
             calls |-> [i \in 1..Len(result.keys) |-> onState(result.keys[i], result.vals[i], FALSE, FALSE)],
             exhausted |-> ~result.diskMore /\ ~result.trieMore, last |-> last, n |-> Len(result.keys)]
       ELSE [err |-> "", calls |-> regenerate(SortKeys(upto), trie, result.keys, result.vals),
             exhausted |-> ~trieMore /\ ~result.diskMore, last |-> last, n |-> Len(result.keys)]

\* The generator's write batch: rows to put, rows to delete (an empty blob),
\* the progress marker to journal, and the size checkAndFlush looks at.
NoProgress == [set |-> FALSE, done |-> FALSE, marker |-> << >>]

EmptyBatch == [accounts |-> EmptyMap, storages |-> EmptyMap, progress |-> NoProgress, size |-> 0]

batchPut(b, table, key, blob) ==
    IF table = "accounts"
    THEN [b EXCEPT !.accounts = Merge(@, [k \in {key} |-> blob]), !.size = @ + 1]
    ELSE [b EXCEPT !.storages = Merge(@, [k \in {key} |-> blob]), !.size = @ + 1]

batchDelete(b, table, keys) ==
    IF table = "accounts"
    THEN [b EXCEPT !.accounts = Merge(@, [k \in keys |-> << >>]), !.size = @ + Cardinality(keys)]
    ELSE [b EXCEPT !.storages = Merge(@, [k \in keys |-> << >>]), !.size = @ + Cardinality(keys)]

\* storeProgress: the marker, or the end of the generation, goes into the batch.
storeProgress(b, current) ==
    [b EXCEPT !.progress = [set |-> TRUE, done |-> current.nil, marker |-> current.key], !.size = @ + 1]

\* batch.Write: every row of the batch and its marker reach the store together.
batchWrite(g, db) ==
    [g |-> [g EXCEPT !.batch = EmptyBatch,
                     !.stored = IF g.batch.progress.set
                                THEN [done |-> g.batch.progress.done, marker |-> g.batch.progress.marker]
                                ELSE @],
     db |-> [db EXCEPT !.accounts = WriteBlobs(@, g.batch.accounts),
                       !.storages = WriteBlobs(@, g.batch.storages)]]

\* The context's storage iterator, opened at the marker: the keys of the
\* flat storage rows from there on, as the store had them at that moment.
openIterator(db, start) == SortKeys({k \in DOMAIN db.storages : BytesCompare(k, start) >= 0})

\* The context deletes the rows at the head of its iterator and moves past them.
removeStorage(g, rows) ==
    [g EXCEPT !.batch = batchDelete(@, "storages", {rows[i] : i \in 1..Len(rows)}),
              !.siter = SubSeq(@, Len(rows) + 1, Len(@))]

AccountOf(key) == SubSeq(key, 1, HashLength)

removeStorageBefore(g, acct) ==
    LET before(k) == BytesCompare(AccountOf(k), acct) < 0
    IN removeStorage(g, SelectSeq(g.siter, before))

removeStorageAt(g, acct) ==
    LET at(k) == AccountOf(k) = acct
    IN IF g.siter # << >> /\ BytesCompare(AccountOf(g.siter[1]), acct) < 0 THEN g
       ELSE removeStorage(g, SelectSeq(g.siter, at))

removeStorageLeft(g) == removeStorage(g, g.siter)

\* checkAndFlush that journals the marker and drops the rows of the batch.
checkAndFlushUnwritten(g, db, current, abort) ==
    IF g.batch.size > IdealBatchSize \/ abort
    THEN [g |-> [g EXCEPT !.batch = EmptyBatch, !.genMarker = current,
                          !.stored = [done |-> FALSE, marker |-> current], !.writes = @ + 1,
                          !.pc = IF abort THEN "stopped" ELSE @,
                          !.aborts = IF abort THEN @ + 1 ELSE @],
          db |-> db, abort |-> abort]
    ELSE [g |-> g, db |-> db, abort |-> FALSE]

\* checkAndFlush: on a full batch or an abort signal the batch is written
\* with current as the marker; after an abort the generator stops.
checkAndFlush(g, db, current, abort) ==
    IF g.batch.size > IdealBatchSize \/ abort
    THEN LET w == batchWrite([g EXCEPT !.batch = storeProgress(@, SomeKey(current))], db)
         IN [g |-> [w.g EXCEPT !.genMarker = current, !.writes = @ + 1,
                               !.pc = IF abort THEN "stopped" ELSE @,
                               !.aborts = IF abort THEN @ + 1 ELSE @],
             db |-> w.db, abort |-> abort]
    ELSE [g |-> g, db |-> db, abort |-> FALSE]

\* onAccount that always hands the account itself to checkAndFlush.
onAccountMarkerPlain(g, acct) == acct

\* The marker onAccount hands to checkAndFlush: the account, or the marker
\* the generator resumed from while it is still inside that account.
onAccountMarker(g, acct) ==
    IF ~g.accMarker.nil /\ acct = g.accMarker.key /\ Len(g.genMarker) > HashLength
    THEN g.genMarker ELSE acct

\* The storage key generateStorages starts from.
storeMarker(g, acct) ==
    IF ~g.accMarker.nil /\ acct = g.accMarker.key /\ Len(g.genMarker) > HashLength
    THEN SomeKey(SubSeq(g.genMarker, HashLength + 1, Len(g.genMarker))) ELSE NilKey

\* What a run of the generator keeps in memory besides the batch.
NoRun ==
    [accMarker |-> NilKey, origin |-> NilKey, accountRange |-> accountCheckRange,
     calls |-> << >>, exhausted |-> FALSE, last |-> NilKey,
     account |-> << >>, sorigin |-> NilKey, scalls |-> << >>, sexhausted |-> FALSE, slast |-> NilKey,
     siter |-> << >>, batch |-> EmptyBatch, writes |-> 0]

Stopped(g) ==
    [on |-> TRUE, w |-> g.w, genMarker |-> g.stored.marker, stored |-> g.stored, pc |-> "stopped",
     aborts |-> g.aborts, flushes |-> g.flushes,
     accMarker |-> NoRun.accMarker, origin |-> NoRun.origin, accountRange |-> NoRun.accountRange,
     calls |-> NoRun.calls, exhausted |-> NoRun.exhausted, last |-> NoRun.last,
     account |-> NoRun.account, sorigin |-> NoRun.sorigin, scalls |-> NoRun.scalls,
     sexhausted |-> NoRun.sexhausted, slast |-> NoRun.slast, siter |-> NoRun.siter, batch |-> NoRun.batch,
     writes |-> NoRun.writes]

SnapUnchanged ==
    UNCHANGED <<layers, disk, buffer, freezer, generator, status, lastErr, trail, reverted, obs,
                reader, conc, hist, pruner>>

\* The flat tables the generator may find: any rows over the known keys.
SlimValues ==
    {SlimAccount(b, r) : b \in Bals, r \in {EmptyRootHash, TrieRoot([h \in {SlotHash(x) : x \in GenSlots} |-> <<1>>])}}

SlotRows == {SlotBlob(v) : v \in SlotVals}

FlatAccountTables == UNION {[D -> SlimValues] : D \in SUBSET {AddrHash(a) : a \in Addrs}}

FlatStorageTables == UNION {[D -> SlotRows] : D \in SUBSET {StorageKey(a, s) : a \in Addrs, s \in GenSlots}}

InitSnap ==
    /\ \E w \in GenWorlds, fa \in FlatAccountTables, fs \in FlatStorageTables :
         /\ diskdb = [StoreOf(EmptyWorld) EXCEPT !.accounts = fa, !.storages = fs]
         /\ layers = [r \in Refs |-> IF r = 1 THEN newDiskLayer(TrieRoot(AccountTrie(w)), 0) ELSE FreeLayer]
         /\ gen = Stopped([w |-> w, stored |-> [done |-> FALSE, marker |-> << >>], aborts |-> 0, flushes |-> 0])
    /\ disk = 1
    /\ buffer = newNodeBuffer(EmptyMap, 0)
    /\ freezer = [enabled |-> FALSE, limit |-> 0, tail |-> 0, items |-> << >>]
    /\ generator = NoGenerator
    /\ status = "running"
    /\ lastErr = ""
    /\ trail = << >>
    /\ reverted = None
    /\ obs = NoObs
    /\ reader = NoReader /\ conc = NoConc
    /\ hist = NoHist /\ pruner = NoPruner

\* generate: the generator starts, or resumes from the marker it stopped at.
Generate ==
    /\ gen.on /\ gen.pc = "stopped" /\ ~gen.stored.done
    /\ LET accMarker == IF Len(gen.genMarker) > 0 THEN SomeKey(SubSeq(gen.genMarker, 1, HashLength)) ELSE NilKey
       IN gen' = [gen EXCEPT !.pc = "accounts", !.accMarker = accMarker, !.origin = accMarker,
                             !.accountRange = IF Len(accMarker.key) > 0 THEN 1 ELSE accountCheckRange,
                             !.siter = openIterator(diskdb, gen.genMarker), !.batch = EmptyBatch,
                             !.writes = 0]
    /\ UNCHANGED diskdb
    /\ SnapUnchanged

\* generateAccounts: one range of accounts is proven or regenerated.
AccountRange ==
    /\ gen.on /\ gen.pc = "accounts"
    /\ LET rows == SortKeys({k \in DOMAIN diskdb.accounts :
                               gen.origin.nil \/ BytesCompare(k, gen.origin.key) >= 0})
           flat == [k \in DOMAIN diskdb.accounts |-> FullAccount(diskdb.accounts[k])]
           r == generateRange(<< >>, rows, flat, AccountTrie(gen.w), gen.origin, gen.accountRange)
       IN gen' = [gen EXCEPT !.pc = "account", !.calls = r.calls, !.exhausted = r.exhausted, !.last = r.last]
    /\ UNCHANGED diskdb
    /\ SnapUnchanged

\* onAccount for the next account of the range.
OnAccount(abort) ==
    /\ gen.on /\ gen.pc = "account" /\ gen.calls # << >>
    /\ abort => gen.aborts < MaxAborts /\ ~Head(gen.calls).delete
    /\ LET c == Head(gen.calls)
           g1 == removeStorageBefore(gen, c.key)
           resumed == ~g1.accMarker.nil /\ c.key = g1.accMarker.key
           g2 == IF ~resumed /\ c.write
                 THEN [g1 EXCEPT !.batch = batchPut(@, "accounts", c.key, SlimAccountRLP(c.val))]
                 ELSE g1
           f == checkAndFlush(g2, diskdb, onAccountMarker(g2, c.key), abort)
       IN IF c.delete
          THEN /\ gen' = [removeStorageAt([g1 EXCEPT !.batch = batchDelete(@, "accounts", {c.key})], c.key)
                            EXCEPT !.calls = Tail(@)]
               /\ UNCHANGED diskdb
          ELSE IF f.abort
          THEN gen' = Stopped(f.g) /\ diskdb' = f.db
          ELSE IF AccountRoot(c.val) = EmptyRootHash
          THEN /\ gen' = [removeStorageAt(f.g, c.key) EXCEPT !.accMarker = NilKey, !.calls = Tail(@)]
               /\ diskdb' = f.db
          ELSE /\ gen' = [f.g EXCEPT !.pc = "storages", !.account = c.key, !.sorigin = storeMarker(f.g, c.key)]
               /\ diskdb' = f.db
    /\ SnapUnchanged

\* generateStorages: one range of the account's slots is proven or regenerated.
StorageRange ==
    /\ gen.on /\ gen.pc = "storages"
    /\ LET r == generateRange(gen.account, gen.siter, diskdb.storages,
                              StorageTrie(gen.w, gen.account), gen.sorigin, storageCheckRange)
       IN gen' = IF r.err # "" THEN [gen EXCEPT !.pc = "failed"]
                 ELSE [gen EXCEPT !.pc = "slot", !.scalls = r.calls, !.sexhausted = r.exhausted,
                                  !.slast = r.last, !.siter = SubSeq(@, r.n + 1, Len(@))]
    /\ UNCHANGED diskdb
    /\ SnapUnchanged

\* onStorage for the next slot of the range.
OnStorage(abort) ==
    /\ gen.on /\ gen.pc = "slot" /\ gen.scalls # << >>
    /\ abort => gen.aborts < MaxAborts /\ ~Head(gen.scalls).delete
    /\ LET c == Head(gen.scalls)
           key == gen.account \o c.key
           g2 == IF c.write THEN [gen EXCEPT !.batch = batchPut(@, "storages", key, c.val)] ELSE gen
           f == checkAndFlush(g2, diskdb, key, abort)
       IN IF c.delete
          THEN /\ gen' = [gen EXCEPT !.batch = batchDelete(@, "storages", {key}), !.scalls = Tail(@)]
               /\ UNCHANGED diskdb
          ELSE IF f.abort
          THEN gen' = Stopped(f.g) /\ diskdb' = f.db
          ELSE gen' = [f.g EXCEPT !.scalls = Tail(@)] /\ diskdb' = f.db
    /\ SnapUnchanged

\* The range of slots is done: the next range, or the account is finished.
StoragesNext ==
    /\ gen.on /\ gen.pc = "slot" /\ gen.scalls = << >>
    /\ gen' = IF gen.sexhausted \/ increaseKey(gen.slast.key).nil
              THEN [gen EXCEPT !.pc = "account", !.accMarker = NilKey, !.calls = Tail(@)]
              ELSE [gen EXCEPT !.pc = "storages", !.sorigin = increaseKey(gen.slast.key)]
    /\ UNCHANGED diskdb
    /\ SnapUnchanged

\* The range of accounts is done: the next range, or the leftover storage
\* rows are deleted and the generation completes with the marker set to nil.
AccountsNext ==
    /\ gen.on /\ gen.pc = "account" /\ gen.calls = << >>
    /\ LET origin == increaseKey(gen.last.key)
           g1 == removeStorageLeft(gen)
           w == batchWrite([g1 EXCEPT !.batch = storeProgress(@, NilKey)], diskdb)
       IN IF origin.nil \/ gen.exhausted
          THEN gen' = [Stopped(w.g) EXCEPT !.pc = "done", !.genMarker = << >>] /\ diskdb' = w.db
          ELSE /\ gen' = [gen EXCEPT !.pc = "accounts", !.origin = origin, !.accountRange = accountCheckRange]
               /\ UNCHANGED diskdb
    /\ SnapUnchanged

\* The process dies while the generator runs: the batch is lost, and the next
\* run starts from the marker in the store.
GenCrash ==
    /\ gen.on /\ gen.pc \notin {"stopped", "done"}
    /\ gen.aborts < MaxAborts
    /\ gen' = Stopped([gen EXCEPT !.aborts = @ + 1])
    /\ UNCHANGED diskdb
    /\ SnapUnchanged

\* A state transition is flushed while the generator is stopped: the rows at
\* or below the marker follow the new state, and the trie is the new state's.
\* Before the first run no row is below the marker, and the flush only
\* exchanges the state for another initial one.
GenFlush(w2) ==
    /\ gen.on /\ gen.pc \in {"stopped", "done"}
    /\ gen.aborts > 0 \/ gen.stored.done
    /\ gen.flushes < MaxFlushes
    /\ w2 \in GenSteps(gen.w)
    /\ diskdb' = writeStates(diskdb, IF gen.stored.done THEN NilMarker ELSE [nil |-> FALSE, key |-> gen.genMarker],
                             GenStateSet(gen.w, w2).accounts, GenStateSet(gen.w, w2).storages)
    /\ gen' = [gen EXCEPT !.w = w2, !.flushes = @ + 1]
    /\ SnapUnchanged

NextSnap ==
    \/ Generate
    \/ AccountRange
    \/ \E abort \in BOOLEAN : OnAccount(abort)
    \/ StorageRange
    \/ \E abort \in BOOLEAN : OnStorage(abort)
    \/ StoragesNext
    \/ AccountsNext
    \/ GenCrash
    \/ \E w2 \in GenWorlds : GenFlush(w2)

SpecSnap == InitSnap /\ [][NextSnap]_vars

\* The states a generation is followed to its end from: account 1 exists with
\* both slots set; the flat tables are empty, or those of the state itself,
\* or those of another state, left behind by an earlier snapshot.
RunWorlds == {w \in GenWorlds : \A s \in GenSlots : w.slot[<<1, s>>] # 0}

FullWorld == [bal |-> [a \in Addrs |-> 1], slot |-> [k \in Addrs \X GenSlots |-> 1]]

GenEmptyWorld == [bal |-> [a \in Addrs |-> 0], slot |-> [k \in Addrs \X GenSlots |-> 0]]

\* The flat tables that hold the state w.
FlatAccounts(w) == [h \in {AddrHash(a) : a \in {x \in Addrs : w.bal[x] # 0}} |-> GenAccountBlob(w, AddrOfHash(h))]

FlatStorages(w) ==
    [h \in {StorageKey(k[1], k[2]) : k \in {x \in Addrs \X GenSlots : w.slot[x] # 0}} |->
        SlotBlob(w.slot[<<AddrOfHash(<<h[1]>>), GenSlotOfHash(<<h[2]>>)>>])]

InitSnapRun ==
    /\ InitSnap
    /\ gen.w \in RunWorlds
    /\ \E w0 \in {GenEmptyWorld, FullWorld, gen.w} :
          diskdb.accounts = FlatAccounts(w0) /\ diskdb.storages = FlatStorages(w0)

\* The generator runs whenever it can: a generation that was stopped is
\* started again, and no step of it waits for ever.  Stop signals and crashes
\* come at most MaxAborts times.  AccountRange and StorageRange are enabled
\* exactly at the head of their loop and leave it when they are taken, so
\* their weak fairness is that the generator is not at that head for ever.
SpecSnapRun ==
    /\ InitSnapRun /\ [][NextSnap]_vars
    /\ WF_vars(Generate)
    /\ []<>~(gen.on /\ gen.pc = "accounts")
    /\ WF_vars(\E abort \in {FALSE} : OnAccount(abort))
    /\ []<>~(gen.on /\ gen.pc = "storages")
    /\ WF_vars(\E abort \in {FALSE} : OnStorage(abort))
    /\ WF_vars(StoragesNext)
    /\ WF_vars(AccountsNext)

(***************************************************************************)
(* The offline pruner of the hash-keyed store: it records the hashes of    *)
(* the target state and the genesis state in a bloom filter, deletes every *)
(* hash-keyed and code-keyed entry the filter does not contain, and then   *)
(* flattens the snapshot onto the target.                                  *)
(***************************************************************************)
emptyCode == <<97>>

CodePrefix == <<99>>

\* Keys of the store by shape: a bare hash, the code prefix and a hash, or
\* anything else.
HashKey(h) == [shape |-> "hash", id |-> h]

CodeKey(h) == [shape |-> "code", id |-> h]

OtherKey(id) == [shape |-> "other", id |-> id]

IsCodeKey(key) == key.shape = "code"

IsHashKey(key) == key.shape = "hash"

\* The bytes of a key, which order the store.
KeyBytes(key) == IF IsCodeKey(key) THEN CodePrefix \o key.id ELSE key.id

\* The states the pruner meets: each account is absent, plain, has one
\* storage slot, or has code.
PruneStates == [Addrs -> {"none", "plain", "slot", "code"}]

GenesisStates == {st \in PruneStates : \A a \in Addrs : a # 1 => st[a] = "none"}

StorageNode(v) == IF v = "slot" THEN SlotHash(1) \o <<1>> ELSE << >>

CodeOf(v) == IF v = "code" THEN <<77>> ELSE << >>

CodeHashOf(v) == IF v = "code" THEN Hash(CodeOf(v)) ELSE emptyCode

AccountLeaf(st, a) == AddrHash(a) \o <<1>> \o RootOfBlob(StorageNode(st[a])) \o CodeHashOf(st[a])

Present(st) == {a \in Addrs : st[a] # "none"}

RECURSIVE BranchBlob(_, _)
BranchBlob(st, hashes) ==
    IF hashes = << >> THEN << >>
    ELSE Hash(AccountLeaf(st, AddrOfHash(hashes[1]))) \o BranchBlob(st, Tail(hashes))

\* The root node of the account trie: nothing, the only leaf, or a branch.
RootNode(st) ==
    IF Present(st) = {} THEN << >>
    ELSE IF Cardinality(Present(st)) = 1 THEN AccountLeaf(st, CHOOSE a \in Present(st) : TRUE)
    ELSE BranchBlob(st, SortKeys({AddrHash(a) : a \in Present(st)}))

PruneRoot(st) == RootOfBlob(RootNode(st))

\* Every node of the account trie and of the storage tries of a state.
TrieNodes(st) ==
    ({RootNode(st)} \cup {AccountLeaf(st, a) : a \in Present(st)}
        \cup {StorageNode(st[a]) : a \in Present(st)}) \ {<< >>}

Codes(st) == {CodeOf(st[a]) : a \in Present(st)} \ {<< >>}

\* The hashes of the nodes and codes of a state.
LiveHashes(st) == {Hash(b) : b \in TrieNodes(st)} \cup {Hash(c) : c \in Codes(st)}

\* The store entries that hold a state: nodes by hash, codes by code key.
StateEntries(st) ==
    {<<HashKey(Hash(b)), b>> : b \in TrieNodes(st)} \cup {<<CodeKey(Hash(c)), c>> : c \in Codes(st)}

\* The entries of other shapes: the genesis header, the pointer to the head
\* header, and the snapshot with its root, its flat account rows and its
\* journal.
GenesisKey == OtherKey(<<104>>)

HeadHeaderKey == OtherKey(<<76>>)

SnapshotRootKey == OtherKey(<<83>>)

SnapshotJournalKey == OtherKey(<<74>>)

AccountSnapshotKey(a) == OtherKey(<<97>> \o AddrHash(a))

PruneSlim(v) ==
    <<1>> \o (IF v = "slot" THEN RootOfBlob(StorageNode(v)) ELSE << >>)
          \o (IF v = "code" THEN CodeHashOf(v) ELSE << >>)

\* The snapshot with the disk layer at base and the layers above it up to top.
SnapshotEntries(base, roots) ==
    {<<SnapshotRootKey, PruneRoot(base)>>, <<SnapshotJournalKey, roots>>}
        \cup {<<AccountSnapshotKey(a), PruneSlim(base[a])>> : a \in Present(base)}

\* The keys the snapshot writes.
SnapshotKeys == {SnapshotRootKey, SnapshotJournalKey} \cup {AccountSnapshotKey(a) : a \in Addrs}

MapOf(entries) == [k \in {e[1] : e \in entries} |-> (CHOOSE e \in entries : e[1] = k)[2]]

SortedKeys(keys) ==
    LET bytes == SortKeys({KeyBytes(k) : k \in keys})
    IN [i \in 1..Len(bytes) |-> CHOOSE k \in keys : KeyBytes(k) = bytes[i]]

\* stateBloom.Contain: what was put, and the filter's false positives.
Contain(p, h) == h \in p.bloom \/ h \in p.fp

PruneUnchanged ==
    UNCHANGED <<layers, disk, buffer, diskdb, freezer, generator, status, lastErr, trail, reverted, obs,
                reader, conc, hist, gen>>

\* The store before pruning: the nodes and codes of the target, the genesis
\* and the snapshot's disk layer, the genesis header, the pointer to the head
\* header and the snapshot.
PruneStore(target, genesis, base, hasTarget, hasGenesis) ==
    MapOf((IF hasTarget THEN StateEntries(target) ELSE {}) \cup StateEntries(genesis) \cup StateEntries(base)
          \cup SnapshotEntries(base, IF target = base THEN PruneRoot(base)
                                     ELSE PruneRoot(base) \o PruneRoot(target))
          \cup (IF hasGenesis THEN {<<GenesisKey, PruneRoot(genesis)>>} ELSE {})
          \cup {<<HeadHeaderKey, PruneRoot(target)>>})

\* The two revisions of the pruner among the sources: the one that names the
\* filter file after the target's root and finishes with Cap and Journal
\* (pruner.go), and the one that keeps the filter at one fixed path and
\* holds the genesis hashes in a marker beside the filter (part_003).
Revisions == {"pruner.go", "part_003"}

InitPruneOf(revs) ==
    /\ InitStore
    /\ diskdb = StoreOf(EmptyWorld)
    /\ ~freezer.enabled /\ freezer.limit = 0
    /\ reader = NoReader /\ conc = NoConc
    /\ hist = NoHist /\ gen = NoGen
    /\ \E target \in PruneStates, genesis \in GenesisStates, base \in PruneStates,
          present \in {<<TRUE, TRUE>>, <<TRUE, FALSE>>, <<FALSE, TRUE>>} :
         LET db == PruneStore(target, genesis, base, present[1], present[2])
         IN \E fp \in {{}} \cup {{k.id} : k \in {x \in DOMAIN db : x.shape # "other"}}, rev \in revs :
              pruner = [on |-> TRUE, rev |-> rev, pc |-> "idle", db |-> db, before |-> db, bloom |-> {},
                        marker |-> {}, fp |-> fp,
                        target |-> target, genesis |-> genesis, base |-> base,
                        iter |-> << >>, batch |-> {}, count |-> 0, file |-> FALSE, err |-> "",
                        saved |-> {}, savedRoot |-> << >>, crashes |-> 0]

InitPrune == InitPruneOf({"pruner.go"})

\* A commit that writes no file.
bloomCommitNothing(p) == p

\* stateBloom.Commit under bloomFilterName(datadir, root): the filter is on
\* disk in a file whose name carries the target's root.
bloomCommit(p) == [p EXCEPT !.file = TRUE, !.saved = p.bloom, !.savedRoot = PruneRoot(p.target)]

\* Pruner.Prune up to the committed filter: the target's root must be in the
\* store, GenerateTrie puts the target's hashes into the filter,
\* extractGenesis the genesis state's, and the filter goes to disk.
PruneStart ==
    /\ pruner.on /\ pruner.rev = "pruner.go" /\ pruner.pc = "idle" /\ ~pruner.file
    /\ pruner' =
         IF HashKey(PruneRoot(pruner.target)) \notin DOMAIN pruner.db
         THEN [pruner EXCEPT !.pc = "failed", !.err = "associated state is not present"]
         ELSE IF GenesisKey \notin DOMAIN pruner.db
         THEN [pruner EXCEPT !.pc = "failed", !.err = "missing genesis hash",
                             !.bloom = LiveHashes(pruner.target)]
         ELSE bloomCommit([pruner EXCEPT !.pc = "sweep",
                                         !.bloom = LiveHashes(pruner.target) \cup LiveHashes(pruner.genesis),
                                         !.iter = SortedKeys(DOMAIN pruner.db)])
    /\ PruneUnchanged

\* A sweep that deletes nothing.
SweepKeepAll(p, key) == FALSE

\* prune deletes an entry when its key is a hash or a code key and neither
\* the genesis marker (of the revision that has one) nor the filter contains
\* the hash.
Swept(p, key) == (IsHashKey(key) \/ IsCodeKey(key)) /\ key.id \notin p.marker /\ ~Contain(p, key.id)

\* prune, one entry of the iteration: the deletion goes through the batch,
\* which is written when it is full.
SweepKey ==
    /\ pruner.on /\ pruner.pc = "sweep" /\ pruner.iter # << >>
    /\ LET key == Head(pruner.iter)
           batch == IF Swept(pruner, key) THEN pruner.batch \cup {key} ELSE pruner.batch
           write == Swept(pruner, key) /\ Cardinality(batch) >= IdealBatchSize
       IN pruner' = [pruner EXCEPT !.iter = Tail(@),
                                   !.count = IF Swept(pruner, key) THEN @ + 1 ELSE @,
                                   !.batch = IF write THEN {} ELSE batch,
                                   !.db = IF write THEN [k \in DOMAIN @ \ batch |-> @[k]] ELSE @]
    /\ PruneUnchanged

\* prune, after the iteration: what is left in the batch is written.
SweepEnd ==
    /\ pruner.on /\ pruner.pc = "sweep" /\ pruner.iter = << >>
    /\ pruner' = [pruner EXCEPT !.pc = "swept", !.batch = {},
                                !.db = [k \in DOMAIN @ \ pruner.batch |-> @[k]]]
    /\ PruneUnchanged

\* The state whose account trie has the given root.
StateOfRoot(root) == CHOOSE st \in PruneStates : PruneRoot(st) = root

\* snaptree.Cap(root, 0) that returns no error, as the comments at its calls
\* describe it: the layer of that root and the diff layers below it are
\* merged into the disk layer, so the snapshot's root and flat rows in the
\* store are those of that state.  The journal in the store is not written.
snaptreeCap(p, root) ==
    [p EXCEPT !.base = StateOfRoot(root),
              !.db = Merge([k \in DOMAIN @ \ SnapshotKeys |-> @[k]],
                           MapOf(SnapshotEntries(StateOfRoot(root), @[SnapshotJournalKey])))]

\* snaptree.Journal(root) that returns no error, as the comments at its calls
\* describe it: the journal goes to the store, with the disk layer of that
\* root as the only layer of the snapshot.
snaptreeJournal(p, root) == [p EXCEPT !.db = [@ EXCEPT ![SnapshotJournalKey] = root]]

\* Prune and RecoverPruning return the error of a call; the filter file
\* stays where it is.
pruneFailed(p, err) == [p EXCEPT !.pc = "failed", !.err = err]

\* os.RemoveAll(filterName): the filter file is gone.
removeFilter(p) == [p EXCEPT !.pc = "done", !.file = FALSE, !.saved = {}, !.savedRoot = << >>]

\* Pruner.Prune after the sweep, in one step: Cap with the root of the filter,
\* Journal, and the removal of the filter file.  Cap and Journal belong to
\* the snapshot tree and either may return an error, which Prune returns.
PruneFinish ==
    /\ pruner.on /\ pruner.rev = "pruner.go" /\ pruner.pc = "swept"
    /\ \E capErr \in BOOLEAN, journalErr \in BOOLEAN :
         pruner' =
           IF capErr THEN pruneFailed(pruner, "Cap")
           ELSE IF journalErr THEN pruneFailed(snaptreeCap(pruner, pruner.savedRoot), "Journal")
           ELSE removeFilter(snaptreeJournal(snaptreeCap(pruner, pruner.savedRoot), pruner.savedRoot))
    /\ PruneUnchanged

NextPrune ==
    \/ PruneStart
    \/ SweepKey
    \/ SweepEnd
    \/ PruneFinish

SpecPrune == InitPrune /\ [][NextPrune]_vars

(***************************************************************************)
(* Pruning that is interrupted and recovered.  Prune runs the steps after  *)
(* the sweep one by one (Cap, Journal, RemoveAll); the process can stop    *)
(* between any two store writes while the filter file exists, and the next *)
(* run, finding the file, goes through RecoverPruning.  A run that has     *)
(* returned an error of Cap or Journal leaves the file, and the next run   *)
(* goes through RecoverPruning as well.                                    *)
(***************************************************************************)
MaxCrashes == 2

\* Prune and RecoverPruning after the sweep, first call: snaptree.Cap with
\* the root of the filter; its error, if it returns one, is returned.
PruneCap ==
    /\ pruner.on /\ pruner.rev = "pruner.go" /\ pruner.pc = "swept"
    /\ \E capErr \in BOOLEAN :
         pruner' = IF capErr THEN pruneFailed(pruner, "Cap")
                   ELSE [snaptreeCap(pruner, pruner.savedRoot) EXCEPT !.pc = "capped"]
    /\ PruneUnchanged

\* Second call: snaptree.Journal with the same root; its error, if it returns
\* one, is returned.
PruneJournal ==
    /\ pruner.on /\ pruner.pc = "capped"
    /\ \E journalErr \in BOOLEAN :
         pruner' = IF journalErr THEN pruneFailed(pruner, "Journal")
                   ELSE [snaptreeJournal(pruner, pruner.savedRoot) EXCEPT !.pc = "journaled"]
    /\ PruneUnchanged

\* os.RemoveAll(filterName): the last step of Prune and of RecoverPruning.
PruneRemove ==
    /\ pruner.on /\ pruner.pc = "journaled"
    /\ pruner' = removeFilter(pruner)
    /\ PruneUnchanged

\* The process stops while the filter file exists: the store keeps what the
\* written batches deleted, the filter in memory, the iterator and the
\* unwritten batch are gone.
PruneCrash ==
    /\ pruner.on /\ pruner.pc \in {"sweep", "swept", "capped", "journaled"}
    /\ pruner.crashes < MaxCrashes
    /\ pruner' = [pruner EXCEPT !.pc = "idle", !.bloom = {}, !.marker = {}, !.iter = << >>, !.batch = {},
                                !.count = 0, !.crashes = @ + 1]
    /\ PruneUnchanged

\* A filter file that is read as an empty filter.
NewStateBloomEmpty(p) == {}

\* NewStateBloomFromDisk: the filter as it was committed.
NewStateBloomFromDisk(p) == p.saved

\* Pruner.Prune(requested) that finds a filter file, and RecoverPruning on
\* boot: the filter is reloaded from the file, the root is the one in the
\* file's name, and the sweep starts over.
RecoverPruning(requested) ==
    /\ pruner.on /\ pruner.rev = "pruner.go" /\ pruner.pc \in {"idle", "failed"} /\ pruner.file
    /\ pruner' = [pruner EXCEPT !.pc = "sweep", !.err = "",
                                !.bloom = NewStateBloomFromDisk(pruner),
                                !.iter = SortedKeys(DOMAIN pruner.db), !.batch = {}, !.count = 0]
    /\ PruneUnchanged

NextRecover ==
    \/ PruneStart
    \/ SweepKey
    \/ SweepEnd
    \/ PruneCap
    \/ PruneJournal
    \/ PruneRemove
    \/ PruneCrash
    \/ \E requested \in {PruneRoot(pruner.base), PruneRoot(pruner.target)} : RecoverPruning(requested)

SpecRecover == InitPrune /\ [][NextRecover]_vars

(***************************************************************************)
(* The revision of the pruner that keeps the filter at one fixed path:     *)
(* Prune commits the filter there, whether or not a file is there already, *)
(* prune reads the genesis state into a marker before it iterates, and the *)
(* file is removed right after the sweep; RecoverTemporaryDatabase repeats *)
(* the sweep with the filter of the file.                                  *)
(***************************************************************************)
\* stateBloom.Commit(stateBloomPath): the name of the file carries no root.
bloomCommitPath(p) == [p EXCEPT !.file = TRUE, !.saved = p.bloom]

\* prune up to its iteration: extractGenesis fails on a store without the
\* genesis hash; otherwise the hashes of the genesis state are the marker.
pruneGenesis(p) ==
    IF GenesisKey \notin DOMAIN p.db
    THEN [p EXCEPT !.pc = "failed", !.err = "missing genesis hash"]
    ELSE [p EXCEPT !.pc = "sweep", !.err = "", !.marker = LiveHashes(p.genesis),
                   !.iter = SortedKeys(DOMAIN p.db), !.batch = {}, !.count = 0]

\* Pruner.Prune up to the iteration of prune: CommitAndVerifyState puts the
\* hashes of the target, rebuilt from the snapshot, into the filter, the
\* filter goes to the file, and prune begins.
PruneFixedPath ==
    /\ pruner.on /\ pruner.rev = "part_003" /\ pruner.pc = "idle"
    /\ pruner' = pruneGenesis(bloomCommitPath([pruner EXCEPT !.bloom = LiveHashes(pruner.target)]))
    /\ PruneUnchanged

\* os.RemoveAll(stateBloomPath): the last step of Prune and of
\* RecoverTemporaryDatabase, right after prune returned.
RemoveStateBloom ==
    /\ pruner.on /\ pruner.rev = "part_003" /\ pruner.pc = "swept"
    /\ pruner' = [pruner EXCEPT !.pc = "done", !.file = FALSE, !.saved = {}]
    /\ PruneUnchanged

\* RecoverTemporaryDatabase on a start that finds the file: the filter is
\* reloaded and prune runs again.
RecoverTemporaryDatabase ==
    /\ pruner.on /\ pruner.rev = "part_003" /\ pruner.pc \in {"idle", "failed"} /\ pruner.file
    /\ pruner' = pruneGenesis([pruner EXCEPT !.bloom = NewStateBloomFromDisk(pruner)])
    /\ PruneUnchanged

NextRevisions ==
    \/ NextRecover
    \/ PruneFixedPath
    \/ RemoveStateBloom
    \/ RecoverTemporaryDatabase

SpecRevisions == InitPruneOf(Revisions) /\ [][NextRevisions]_vars

(***************************************************************************)
(* Boot.  The journal stays in the store after it is loaded, a process can *)
(* end without writing one, and the store may hold the journal of a        *)
(* release with another journal version.                                   *)
(***************************************************************************)
JournalVersions == {journalVersion, journalVersion + 1}

\* The process is gone and with it the layers and the buffer it held.
GoneWith(st) ==
    /\ status' = "closed"
    /\ layers' = [r \in Refs |-> FreeLayer]
    /\ disk' = 1
    /\ buffer' = newNodeBuffer(EmptyMap, 0)
    /\ lastErr' = ""
    /\ trail' = << >>
    /\ reverted' = None
    /\ obs' = NoObs

\* The store of a node that keeps no state histories.
InitBoot == Init /\ ~freezer.enabled /\ freezer.limit = 0

\* Database.Journal of a release whose journal version is v.
JournalAs(l, v) ==
    /\ status = "running"
    /\ InTree(l)
    /\ ~layers[disk].stale
    /\ diskdb' = [diskdb EXCEPT !.journal = [journal(Mem, disk, l) EXCEPT !.version = v]]
    /\ GoneWith(status)
    /\ UNCHANGED <<freezer, generator, reader, conc, hist, gen, pruner>>

\* The process ends without Journal: what it held in memory is gone, the
\* store keeps the journal of the shutdown before.
Kill ==
    /\ status = "running"
    /\ GoneWith(status)
    /\ UNCHANGED <<diskdb, freezer, generator, reader, conc, hist, gen, pruner>>

\* A new process over the store: loadLayers, then the freezer is cut back
\* to the disk layer.  What loadJournal answered is what loadLayers logs.
Boot ==
    /\ status = "closed"
    /\ LET ld == loadLayers(diskdb)
           tr == IF freezer.enabled /\ freezer.tail + Len(freezer.items) > ld.layers[1].id
                 THEN truncateFromHead(diskdb, freezer, ld.layers[1].id)
                 ELSE [db |-> diskdb, fr |-> freezer, err |-> ""]
       IN /\ layers' = ld.layers
          /\ buffer' = ld.buffer
          /\ diskdb' = tr.db
          /\ freezer' = tr.fr
    /\ disk' = 1
    /\ status' = "running"
    /\ lastErr' = ""
    /\ trail' = << >>
    /\ reverted' = None
    /\ obs' = [op |-> "boot", err |-> loadJournal(diskdb, DiskRoot(diskdb)).err]
    /\ UNCHANGED <<generator, reader, conc, hist, gen, pruner>>

\* The layer no other layer is built on: the chain has no forks here.
IsHead(l) == InTree(l) /\ \A r \in Refs : ~(layers[r].kind = "diff" /\ layers[r].parent = l)

\* The states the blocks of this chain lead to.
BootWorlds ==
    InitWorlds \cup {[bal |-> [a \in Addrs |-> 1],
                      slot |-> [k \in Addrs \X Slots |-> IF k[1] = 1 THEN 1 ELSE 0]]}

NextBoot ==
    \/ \E p \in Refs, w2 \in BootWorlds : IsHead(p) /\ Update(p, w2)
    \/ \E l \in Refs, force \in BOOLEAN : Commit(l, force)
    \/ \E l \in Refs, v \in JournalVersions : IsHead(l) /\ JournalAs(l, v)
    \/ Kill
    \/ Boot

SpecBoot == InitBoot /\ [][NextBoot]_vars

(***************************************************************************)
(* diskLayer.revert called with any history: those of the transitions      *)
(* between the world states, whether or not they lead to the disk layer.   *)
(***************************************************************************)
\* The history writeHistory stores for the transition from w to w2.
HistoryOf(w, w2) ==
    [parent |-> StateRoot(w), root |-> StateRoot(w2), block |-> 1,
     accounts |-> StateSet(w, w2).accountOrigin, storages |-> StateSet(w, w2).storageOrigin]

RevertHistories == {HistoryOf(w, w2) : w \in BootWorlds, w2 \in BootWorlds}

\* The accounts a history can list as incomplete: those it has slots of.
IncompleteOf(h) == SUBSET {k[1] : k \in DOMAIN h.storages}

\* A revert that does not look at the list of incomplete accounts.
revertListedAnyway(m, dl, h, incomplete) == revert(m, dl, h)

\* diskLayer.revert of the revision whose histories list the accounts with
\* incomplete storage: such a history is refused after the root is checked.
revertComplete(m, dl, h, incomplete) ==
    IF h.root # m.layers[dl].root THEN Fail(m, errUnexpectedHistory)
    ELSE IF incomplete # {} THEN Fail(m, "incomplete state history")
    ELSE revert(m, dl, h)

\* The histories a caller hands to revert on the disk layer: the one the
\* freezer holds for the layer's state id, any history when the layer has
\* none (state id 0), and the histories of other states.
Handed ==
    {h \in RevertHistories : h.root # layers[disk].root \/ layers[disk].id = 0}
        \cup (IF readHistory(freezer, layers[disk].id).err = ""
              THEN {readHistory(freezer, layers[disk].id).h} ELSE {})

\* A revert has returned a new disk layer and its caller has not yet reset
\* the tree to it.
Unreset == obs.op = "revert" /\ obs.unreset

\* diskLayer.revert has returned: its caller holds the disk layer it
\* returned.  revert leaves the tree, the histories of the freezer and
\* their lookups as they are.
RevertDone(r, h, incomplete) ==
    /\ Finish(r, r.ret, r.m.layers)
    /\ reverted' = None
    /\ obs' = [op |-> "revert", root |-> h.root, incomplete |-> incomplete,
               unreset |-> Unreset \/ (~r.panic /\ r.err = "")]
    /\ UNCHANGED <<reader, conc, hist, gen, pruner>>

\* diskLayer.revert called on the live disk layer.
Revert(h) ==
    /\ status = "running"
    /\ NumFree >= 1
    /\ RevertDone(revert(Mem, disk, h), h, {})

RevertListed(h, incomplete) ==
    /\ status = "running"
    /\ NumFree >= 1
    /\ incomplete # {}
    /\ RevertDone(revertComplete(Mem, disk, h, incomplete), h, incomplete)

\* The caller of revert after its last revert succeeded, as Recover does:
\* the tree is reset to the disk layer revert returned, and the histories
\* above that layer are cut from the freezer with their lookups.
RecoverReset ==
    /\ status = "running"
    /\ Unreset /\ lastErr = ""
    /\ FinishReset(recoverFinish(Ok(Mem, disk)))
    /\ reverted' = None
    /\ obs' = [op |-> "reset"]
    /\ UNCHANGED <<reader, conc, hist, gen, pruner>>

\* A store that keeps every state history.
InitRevert == Init /\ freezer.enabled /\ freezer.limit = 0

\* The driver updates and commits on a tree that rests on its disk layer:
\* not between a revert and the reset of the tree.
NextRevert ==
    \/ \E p \in Refs, w2 \in BootWorlds : ~Unreset /\ IsHead(p) /\ Update(p, w2)
    \/ \E l \in Refs, force \in BOOLEAN : ~Unreset /\ Commit(l, force)
    \/ \E h \in Handed : Revert(h)
    \/ \E h \in Handed : \E incomplete \in IncompleteOf(h) : RevertListed(h, incomplete)
    \/ RecoverReset

SpecRevert == InitRevert /\ [][NextRevert]_vars

(***************************************************************************)
(* The generator task and the stop requests of the driver.  The task goes  *)
(* through the segments of the state; what it writes is counted, the rows  *)
(* themselves are those of the generator above.  genAbort is an unbuffered *)
(* channel: a request is in it while the driver is blocked sending, and    *)
(* the request is the channel the driver then waits on for the reply.      *)
(***************************************************************************)
MaxSegments == 3

MaxStops == 2

MaxFails == 2

\* gen.pc: "work" inside generateAccounts, "erred" after an error that was
\* not an abort, "held" with a request in hand and the stats to send,
\* "complete" after the marker was set to nil, "heldnil" with a request in
\* hand and nil to send, "exited" after the reply.
\* gen.req: "none", "sent" (the driver is blocked in genAbort <- abort),
\* "taken" (received by the task, the driver waits on abort), "replied".
StopUnchanged ==
    UNCHANGED <<layers, disk, buffer, diskdb, freezer, generator, status, lastErr, trail, reverted, obs,
                reader, conc, hist, pruner>>

InitStop ==
    /\ InitStore
    /\ diskdb = StoreOf(EmptyWorld)
    /\ ~freezer.enabled /\ freezer.limit = 0
    /\ reader = NoReader /\ conc = NoConc
    /\ hist = NoHist /\ pruner = NoPruner
    /\ gen = [on |-> TRUE, task |-> "stop", pc |-> "work", genMarker |-> 0,
              stored |-> [done |-> FALSE, marker |-> 0], batch |-> 0, writes |-> 0, fails |-> 0,
              req |-> "none", reply |-> "none", replies |-> 0, stops |-> 0]

TaskOn == gen.on /\ gen.task = "stop"

\* onAccount / onStorage with checkAndFlush at the end of a segment: the
\* request in genAbort, if any, is received; a full batch or a request
\* makes the batch and the marker go to the store; a failed write returns
\* its error, a request returns the abort error that carries the request.
FlushPoint(g, taken, fail) ==
    IF g.batch + 1 > IdealBatchSize \/ taken
    THEN IF fail
         THEN [g EXCEPT !.pc = "erred", !.fails = @ + 1, !.req = IF taken THEN "taken" ELSE @]
         ELSE [g EXCEPT !.batch = 0, !.genMarker = @ + 1, !.writes = @ + 1,
                        !.stored = [done |-> FALSE, marker |-> g.genMarker + 1],
                        !.pc = IF taken THEN "held" ELSE @, !.req = IF taken THEN "taken" ELSE @]
    ELSE [g EXCEPT !.batch = @ + 1, !.genMarker = @ + 1]

Segment(fail) ==
    /\ TaskOn /\ gen.pc = "work" /\ gen.genMarker < MaxSegments
    /\ fail => gen.fails < MaxFails
    /\ gen' = FlushPoint(gen, gen.req = "sent", fail)
    /\ StopUnchanged

\* generateAccounts returns an error of its own (a missing trie, a failed
\* iterator): generate waits for a request.
InternalError ==
    /\ TaskOn /\ gen.pc = "work" /\ gen.fails < MaxFails
    /\ gen' = [gen EXCEPT !.pc = "erred", !.fails = @ + 1]
    /\ StopUnchanged

\* generate after generateAccounts returned nil: the marker nil goes to the
\* store with what is left in the batch; a failed write makes it wait for a
\* request like any error.
Complete(fail) ==
    /\ TaskOn /\ gen.pc = "work" /\ gen.genMarker = MaxSegments
    /\ fail => gen.fails < MaxFails
    /\ gen' = IF fail THEN [gen EXCEPT !.pc = "erred", !.fails = @ + 1]
              ELSE [gen EXCEPT !.pc = "complete", !.batch = 0, !.writes = @ + 1,
                               !.stored = [done |-> TRUE, marker |-> 0]]
    /\ StopUnchanged

\* abort = <-dl.genAbort, after an error and after completion.
AwaitAbort ==
    /\ TaskOn /\ gen.pc \in {"erred", "complete"} /\ gen.req = "sent"
    /\ gen' = [gen EXCEPT !.pc = IF @ = "erred" THEN "held" ELSE "heldnil", !.req = "taken"]
    /\ StopUnchanged

\* abort <- stats, abort <- nil: the driver receives, the task returns.
Reply ==
    /\ TaskOn /\ gen.pc \in {"held", "heldnil"}
    /\ gen' = [gen EXCEPT !.pc = "exited", !.req = "replied", !.replies = @ + 1,
                          !.reply = IF gen.pc = "held" THEN "stats" ELSE "nil"]
    /\ StopUnchanged

\* The driver asks the task to stop and waits for the reply.
StopGeneration ==
    /\ TaskOn /\ gen.pc # "exited" /\ gen.req = "none" /\ gen.stops < MaxStops
    /\ gen' = [gen EXCEPT !.req = "sent", !.reply = "none", !.replies = 0, !.stops = @ + 1]
    /\ StopUnchanged

\* The driver has its reply; when the generation is incomplete it runs the
\* generator again from the marker in the store.
Resume ==
    /\ TaskOn /\ gen.pc = "exited" /\ gen.req = "replied"
    /\ gen' = IF gen.stored.done THEN [gen EXCEPT !.req = "none"]
              ELSE [gen EXCEPT !.req = "none", !.pc = "work", !.genMarker = gen.stored.marker, !.batch = 0]
    /\ StopUnchanged

NextStop ==
    \/ \E fail \in BOOLEAN : Segment(fail)
    \/ InternalError
    \/ \E fail \in BOOLEAN : Complete(fail)
    \/ AwaitAbort
    \/ Reply
    \/ StopGeneration
    \/ Resume

SpecStop == InitStop /\ [][NextStop]_vars

\* The task and the driver are scheduled: a step that stays possible is taken.
SpecStopFair ==
    /\ SpecStop
    /\ WF_vars(\E fail \in {FALSE} : Segment(fail))
    /\ WF_vars(\E fail \in {FALSE} : Complete(fail))
    /\ WF_vars(AwaitAbort)
    /\ WF_vars(Reply)
    /\ WF_vars(Resume)

(***************************************************************************)
(* The generator task across commit and revert.  The generator linked to   *)
(* the disk layer is one object handed from layer to layer; gen counts the *)
(* tasks that run for it and keeps the root the task was started on.  The  *)
(* commit and the revert are taken one call at a time.                     *)
(***************************************************************************)
\* generator.stop: it returns once the running task has exited.
generatorStop(t) == [t EXCEPT !.tasks = 0]

\* generator.run: a task is started on the root.
generatorRun(t, root) == [t EXCEPT !.tasks = @ + 1, !.root = root]

\* A faulty commit that flushes under the running generator.
commitStopsNever(flushing, g) == FALSE

\* commit: the generator is stopped when the buffer is about to be flushed
\* and a generator is linked.
commitStops(flushing, g) == flushing /\ g.linked

\* commit, revert: the generator is run again when the progress read after
\* the stop is not nil.
resumes(m) == ~genMarker(m).nil

LinkUnchanged == UNCHANGED <<layers, disk, freezer, generator, status, trail, reverted, obs, reader, hist, pruner>>

\* commit: combined.full() || force is decided, the generator is stopped
\* for a flush; without a flush the commit goes on to the new disk layer.
LinkCommitStop ==
    /\ conc.on /\ status = "running" /\ gen.on
    /\ conc.writer.pc = "merged" /\ conc.writer.op = "commit"
    /\ gen' = IF commitStops(full(buffer) \/ conc.writer.force, generator) THEN generatorStop(gen) ELSE gen
    /\ conc' = [conc EXCEPT !.writer.pc = IF full(buffer) \/ conc.writer.force THEN "stopped" ELSE "flushed",
                            !.writer.force = full(buffer) \/ conc.writer.force]
    /\ LinkUnchanged /\ UNCHANGED <<buffer, diskdb, lastErr>>

\* commit: combined.flush with the progress of the stopped generator.
LinkCommitFlush ==
    /\ conc.on /\ status = "running" /\ gen.on
    /\ conc.writer.pc = "stopped"
    /\ buffer' = commitFlush(Mem, conc.writer.bottom, TRUE).m.buffer
    /\ diskdb' = commitFlush(Mem, conc.writer.bottom, TRUE).m.diskdb
    /\ lastErr' = commitFlush(Mem, conc.writer.bottom, TRUE).err
    /\ conc' = IF commitFlush(Mem, conc.writer.bottom, TRUE).err # ""
               THEN [conc EXCEPT !.writer = IdleWriter]
               ELSE [conc EXCEPT !.writer.pc = "written"]
    /\ LinkUnchanged /\ UNCHANGED gen

\* commit: dl.generator.run(bottom.root) when the generation is not complete.
LinkCommitRun ==
    /\ conc.on /\ status = "running" /\ gen.on
    /\ conc.writer.pc = "written"
    /\ gen' = IF resumes(Mem) THEN generatorRun(gen, layers[conc.writer.bottom].root) ELSE gen
    /\ conc' = [conc EXCEPT !.writer.pc = "flushed"]
    /\ LinkUnchanged /\ UNCHANGED <<buffer, diskdb, lastErr>>

\* revert with an empty buffer: the generator is stopped before the batch.
LinkRevertStop ==
    /\ conc.on /\ status = "running" /\ gen.on
    /\ conc.writer.pc = "marked" /\ conc.writer.op = "revert"
    /\ conc.writer.ap.err = "" /\ empty(buffer)
    /\ gen' = IF generator.linked THEN generatorStop(gen) ELSE gen
    /\ conc' = [conc EXCEPT !.writer.pc = "rstopped"]
    /\ LinkUnchanged /\ UNCHANGED <<buffer, diskdb, lastErr>>

\* revert: the batch with the nodes, the flat states up to the progress, the
\* persistent state id and the snapshot root.
LinkRevertWrite ==
    /\ conc.on /\ status = "running" /\ gen.on
    /\ conc.writer.pc = "rstopped"
    /\ diskdb' = revertStore(Mem, conc.writer.ap.nodes, hashedAccounts(conc.writer.h),
                             hashedStorages(conc.writer.h), conc.writer.h.parent,
                             layers[conc.writer.dl].id - 1).m.diskdb
    /\ conc' = [conc EXCEPT !.writer.pc = "rwritten"]
    /\ LinkUnchanged /\ UNCHANGED <<buffer, lastErr, gen>>

\* revert: ndl.generator.run(h.meta.parent) when the progress is not nil.
LinkRevertRun ==
    /\ conc.on /\ status = "running" /\ gen.on
    /\ conc.writer.pc = "rwritten"
    /\ gen' = IF resumes(Mem) THEN generatorRun(gen, conc.writer.h.parent) ELSE gen
    /\ conc' = [conc EXCEPT !.writer.pc = "rrun"]
    /\ LinkUnchanged /\ UNCHANGED <<buffer, diskdb, lastErr>>

\* revert: the new disk layer with the generator linked.
LinkRevertEnd ==
    /\ conc.on /\ status = "running" /\ gen.on
    /\ conc.writer.pc = "rrun"
    /\ WriterFinish(revertStore(Mem, conc.writer.ap.nodes, hashedAccounts(conc.writer.h),
                                hashedStorages(conc.writer.h), conc.writer.h.parent,
                                layers[conc.writer.dl].id - 1),
                    NoRef)

\* A generator is linked to the disk layer; its task runs unless the
\* generation is complete.
InitLink ==
    /\ \E w \in InitWorlds, done \in BOOLEAN, marker \in GenMarkers :
         /\ done => marker = << >>
         /\ generator = [linked |-> TRUE, done |-> done, marker |-> marker, root |-> StateRoot(w)]
         /\ diskdb = StoreUpTo(w, progressMarker(generator))
         /\ layers = [r \in Refs |-> IF r = 1 THEN newDiskLayer(StateRoot(w), 0) ELSE FreeLayer]
         /\ gen = [on |-> TRUE, tasks |-> IF done THEN 0 ELSE 1, root |-> StateRoot(w)]
    /\ disk = 1
    /\ buffer = newNodeBuffer(EmptyMap, 0)
    /\ freezer = [enabled |-> TRUE, limit |-> 0, tail |-> 0, items |-> << >>]
    /\ status = "running"
    /\ lastErr = ""
    /\ trail = << >>
    /\ reverted = None
    /\ obs = NoObs
    /\ reader = NoReader
    /\ conc = [on |-> TRUE, readers |-> [t \in Threads |-> IdleReader], writer |-> IdleWriter]
    /\ hist = NoHist /\ pruner = NoPruner

NextLink ==
    \/ \E p \in Refs, w2 \in BootWorlds : IsHead(p) /\ DriverUpdate(p, w2)
    \/ \E l \in Refs, force \in BOOLEAN : CommitBegin(l, force)
    \/ RevertBegin
    \/ WriterMark
    \/ conc.writer.pc = "marked" /\ conc.writer.op = "commit" /\ PersistLookupBase
    \/ PersistLookup
    \/ PersistMerge
    \/ LinkCommitStop
    \/ LinkCommitFlush
    \/ LinkCommitRun
    \/ PersistEnd
    \/ conc.writer.pc = "marked" /\ conc.writer.op = "revert" /\ (conc.writer.ap.err # "" \/ ~empty(buffer)) /\ RevertEnd
    \/ LinkRevertStop
    \/ LinkRevertWrite
    \/ LinkRevertRun
    \/ LinkRevertEnd

SpecLink == InitLink /\ [][NextLink]_vars

(***************************************************************************)
(* generateRange on its own: one segment of a flat table against a trie,   *)
(* and the callbacks applied to the table one after the other.             *)
(***************************************************************************)
MaxRangeKey == 3

RangeKeys == {<<i>> : i \in 1..MaxRangeKey}

RangeVals == {<<1>>, <<2>>}

\* The tables over the keys: every key absent or with one of the values.
RangeTables == UNION {[S -> RangeVals] : S \in SUBSET RangeKeys}

RangeOrigins == {NilKey, SomeKey(<<2>>)}

RangeMaxes == {1, MaxRangeKey}

\* The rows the iterator yields: the keys of the table from origin on, sorted.
RangeRows(flat, origin) ==
    SortKeys({k \in DOMAIN flat : origin.nil \/ BytesCompare(k, origin.key) >= 0})

InitRange ==
    /\ InitStore
    /\ diskdb = StoreOf(EmptyWorld)
    /\ ~freezer.enabled /\ freezer.limit = 0
    /\ reader = NoReader /\ conc = NoConc
    /\ hist = NoHist /\ pruner = NoPruner
    /\ \E flat \in RangeTables, trie \in RangeTables, origin \in RangeOrigins, max \in RangeMaxes :
         gen = [on |-> TRUE, task |-> "range", pc |-> "input", flat |-> flat, trie |-> trie,
                origin |-> origin, max |-> max, calls |-> << >>, left |-> << >>, table |-> flat]

RangeOn == gen.on /\ gen.task = "range"

\* generateRange is called on the segment.
RangeGenerate ==
    /\ RangeOn /\ gen.pc = "input"
    /\ LET r == generateRange(<< >>, RangeRows(gen.flat, gen.origin), gen.flat, gen.trie, gen.origin, gen.max)
       IN gen' = [gen EXCEPT !.pc = "called", !.calls = r.calls, !.left = r.calls]
    /\ StopUnchanged

\* The callback: a deletion removes the row, a write puts the value, and
\* nothing is done for a row that is correct.
RangeOnState ==
    /\ RangeOn /\ gen.pc = "called" /\ gen.left # << >>
    /\ LET c == Head(gen.left)
       IN gen' = [gen EXCEPT !.left = Tail(@),
                             !.table = IF c.delete THEN [k \in DOMAIN @ \ {c.key} |-> @[k]]
                                       ELSE IF c.write THEN Merge(@, [k \in {c.key} |-> c.val])
                                       ELSE @]
    /\ StopUnchanged

NextRange == RangeGenerate \/ RangeOnState

SpecRange == InitRange /\ [][NextRange]_vars

(***************************************************************************)
(* Apply on its own: any set of account and slot pre-images, with any root *)
(* to go back to, is applied to the state the disk layer holds.            *)
(***************************************************************************)
\* The pre-images of an account: absent before the transition (empty), or
\* the slim account without or with storage.
AccountPreimages == {AccountBlob(w, a) : w \in Worlds, a \in Addrs}

SlotPreimages == {SlotBlob(v) : v \in SlotVals \cup {0}}

ApplyAccounts == UNION {[S -> AccountPreimages] : S \in SUBSET {AddrHash(a) : a \in Addrs}}

ApplyStorages == UNION {[S -> SlotPreimages] : S \in SUBSET {StorageKey(a, s) : a \in Addrs, s \in Slots}}

ApplyRoots == {StateRoot(w) : w \in Worlds}

InitApply ==
    /\ \E w \in Worlds :
         /\ diskdb = StoreOf(w)
         /\ layers = [r \in Refs |-> IF r = 1 THEN newDiskLayer(StateRoot(w), 1) ELSE FreeLayer]
    /\ disk = 1
    /\ buffer = newNodeBuffer(EmptyMap, 0)
    /\ freezer = [enabled |-> FALSE, limit |-> 0, tail |-> 0, items |-> << >>]
    /\ generator = NoGenerator
    /\ status = "running"
    /\ lastErr = ""
    /\ trail = << >>
    /\ reverted = None
    /\ obs = NoObs
    /\ reader = NoReader /\ conc = NoConc /\ Idle

\* Apply(prevRoot, postRoot, accounts, storages, loader) with the disk layer
\* as the loader and its root as the post-state; one call is observed.  A
\* panic of Apply ends the process.
ApplyCall(prevRoot, accounts, storages) ==
    /\ status = "running"
    /\ obs = NoObs
    /\ obs' = [op |-> "apply", prevRoot |-> prevRoot, accounts |-> accounts, storages |-> storages,
               res |-> Apply(Mem, disk, prevRoot, layers[disk].root, accounts, storages)]
    /\ status' = IF Apply(Mem, disk, prevRoot, layers[disk].root, accounts, storages).panic
                 THEN "panic" ELSE status
    /\ UNCHANGED <<layers, disk, buffer, diskdb, freezer, generator, lastErr, trail, reverted,
                   reader, conc, hist, gen, pruner>>

NextApply == \E prevRoot \in ApplyRoots, accounts \in ApplyAccounts, storages \in ApplyStorages :
                ApplyCall(prevRoot, accounts, storages)

SpecApply == InitApply /\ [][NextApply]_vars

(***************************************************************************)
(* The node buffer on its own: node sets of any content are committed and  *)
(* reverted, and the buffer is flushed and reset.                          *)
(***************************************************************************)
\* The largest state id the buffer's transitions reach.
MaxBufId == 3

BufKeys == {AccountRootKey, AccountLeafKey(1)}

BufBlobs == {<< >>, <<1>>, <<1, 2>>}

\* The node sets handed to the buffer: any keys, written or deleted.
BufNodeSets == UNION {[S -> {NodeOfBlob(b) : b \in BufBlobs}] : S \in SUBSET BufKeys}

InitBuffer ==
    /\ InitStore
    /\ diskdb = StoreOf(EmptyWorld)
    /\ ~freezer.enabled /\ freezer.limit = 0
    /\ reader = NoReader /\ conc = NoConc /\ Idle

BufUnchanged == UNCHANGED <<layers, disk, freezer, generator, trail, reverted, reader, conc, hist, gen, pruner>>

\* nodebuffer.commit
BufCommit(nodes) ==
    /\ status = "running"
    /\ diskdb.pid + buffer.layers < MaxBufId
    /\ buffer' = bufferCommit(buffer, nodes, EmptyMap, EmptyMap)
    /\ obs' = [op |-> "commit", nodes |-> nodes, before |-> buffer, err |-> "", panic |-> FALSE]
    /\ UNCHANGED <<diskdb, status, lastErr>>
    /\ BufUnchanged

\* nodebuffer.revert
BufRevert(nodes) ==
    /\ status = "running"
    /\ buffer' = bufferRevert(buffer, nodes, EmptyMap, EmptyMap).b
    /\ status' = IF bufferRevert(buffer, nodes, EmptyMap, EmptyMap).panic THEN "panic" ELSE status
    /\ lastErr' = bufferRevert(buffer, nodes, EmptyMap, EmptyMap).err
    /\ obs' = [op |-> "revert", nodes |-> nodes, before |-> buffer,
               err |-> bufferRevert(buffer, nodes, EmptyMap, EmptyMap).err,
               panic |-> bufferRevert(buffer, nodes, EmptyMap, EmptyMap).panic]
    /\ UNCHANGED diskdb
    /\ BufUnchanged

\* nodebuffer.flush with the id of the newest transition in the buffer:
\* nothing happens below the limit unless the flush is forced.
BufFlush(force) ==
    /\ status = "running"
    /\ IF ~full(buffer) /\ ~force
       THEN UNCHANGED <<buffer, diskdb, lastErr>>
       ELSE /\ buffer' = flush(Mem, diskdb.snapRoot, NilMarker, diskdb.pid + buffer.layers).m.buffer
            /\ diskdb' = flush(Mem, diskdb.snapRoot, NilMarker, diskdb.pid + buffer.layers).m.diskdb
            /\ lastErr' = flush(Mem, diskdb.snapRoot, NilMarker, diskdb.pid + buffer.layers).err
    /\ obs' = [op |-> "flush", nodes |-> EmptyMap, before |-> buffer, err |-> "", panic |-> FALSE]
    /\ UNCHANGED status
    /\ BufUnchanged

\* nodebuffer.reset
BufReset ==
    /\ status = "running"
    /\ buffer' = reset(buffer)
    /\ obs' = [op |-> "reset", nodes |-> EmptyMap, before |-> buffer, err |-> "", panic |-> FALSE]
    /\ UNCHANGED <<diskdb, status, lastErr>>
    /\ BufUnchanged

NextBuffer ==
    \/ \E nodes \in BufNodeSets : BufCommit(nodes)
    \/ \E nodes \in BufNodeSets : BufRevert(nodes)
    \/ \E force \in BOOLEAN : BufFlush(force)
    \/ BufReset

SpecBuffer == InitBuffer /\ [][NextBuffer]_vars

(***************************************************************************)
(* The locks alone: a chain of two diff layers on a disk layer, readers    *)
(* that descend it and one driver that persists or reverts.  Each layer    *)
(* carries a sync.RWMutex: a read lock is granted unless the write lock is *)
(* held or a Lock call is waiting; a Lock call waits for the readers to    *)
(* leave.  The content of the layers is left out; whether a diff layer     *)
(* holds the key read is an input of the read.                             *)
(***************************************************************************)
\* Number of layer objects ever made: the three of the chain and the disk
\* layers that commit and revert return.
MaxLockLayers == 6

LockRefs == 1..MaxLockLayers

\* sync.RWMutex: the holders of the read lock, the write lock, a waiting Lock.
FreeMutex == [r |-> {}, w |-> FALSE, pend |-> FALSE]

\* RLock returns at once.
canRLock(mu) == ~mu.w /\ ~mu.pend

\* Lock returns at once.
canWLock(mu) == ~mu.w /\ mu.r = {}

\* A faulty persist that keeps the write lock of the child.
unlockKept(mu) == mu

\* dl.lock.Unlock().
unlock(mu) == [mu EXCEPT !.w = FALSE]

IdleLockReader == [pc |-> "idle", at |-> 0, held |-> << >>]

IdleLockWriter == [pc |-> "idle", op |-> "", dl |-> 0, target |-> 0, outer |-> << >>, res |-> 0]

\* The disk layer the chain under x ends in.
RECURSIVE LockBase(_, _)
LockBase(c, x) == IF c.kind[x] = "disk" THEN x ELSE LockBase(c, c.parent[x])

\* The number of diff layers from x down to the disk layer.
RECURSIVE LockDepth(_, _)
LockDepth(c, x) == IF c.kind[x] = "disk" THEN 0 ELSE 1 + LockDepth(c, c.parent[x])

LockFree(c) == {x \in LockRefs : c.kind[x] = "free"}

LockUnchanged ==
    UNCHANGED <<layers, disk, buffer, diskdb, freezer, generator, status, lastErr, trail, reverted, obs,
                reader, hist, gen, pruner>>

InitLock ==
    /\ InitStore
    /\ diskdb = StoreOf(EmptyWorld)
    /\ ~freezer.enabled /\ freezer.limit = 0
    /\ reader = NoReader /\ Idle
    /\ conc = [on |-> TRUE,
               kind |-> [x \in LockRefs |-> IF x = 1 THEN "disk" ELSE IF x \in {2, 3} THEN "diff" ELSE "free"],
               parent |-> [x \in LockRefs |-> IF x \in {2, 3} THEN x - 1 ELSE 0],
               stale |-> [x \in LockRefs |-> FALSE],
               mu |-> [x \in LockRefs |-> FreeMutex],
               readers |-> [t \in Threads |-> IdleLockReader],
               writer |-> IdleLockWriter]

LockOn == conc.on /\ "mu" \in DOMAIN conc

\* A reader calls node / account / storage on a layer it refers to.
LockReadCall(t, x) ==
    /\ LockOn
    /\ conc.readers[t].pc = "idle"
    /\ conc.kind[x] # "free"
    /\ conc' = [conc EXCEPT !.readers[t] = [pc |-> "rlock", at |-> x, held |-> << >>]]
    /\ LockUnchanged

\* dl.lock.RLock() of the layer called, and the body under it: a disk layer
\* answers; a diff layer answers when it holds the key and calls its parent
\* otherwise, keeping its read lock.
LockReadRLock(t, found) ==
    /\ LockOn
    /\ conc.readers[t].pc = "rlock"
    /\ canRLock(conc.mu[conc.readers[t].at])
    /\ LET x == conc.readers[t].at
       IN  conc' = [conc EXCEPT
                       !.mu[x].r = @ \cup {t},
                       !.readers[t] =
                           IF conc.kind[x] = "disk" \/ found
                           THEN [@ EXCEPT !.pc = "return", !.held = Append(@, x)]
                           ELSE [@ EXCEPT !.at = conc.parent[x], !.held = Append(@, x)]]
    /\ LockUnchanged

\* The deferred dl.lock.RUnlock() of the innermost call still open.
LockReadRUnlock(t) ==
    /\ LockOn
    /\ conc.readers[t].pc = "return"
    /\ LET h == conc.readers[t].held
           x == h[Len(h)]
       IN  conc' = [conc EXCEPT
                       !.mu[x].r = @ \ {t},
                       !.readers[t] = IF Len(h) = 1 THEN IdleLockReader
                                      ELSE [@ EXCEPT !.held = SubSeq(h, 1, Len(h) - 1)]]
    /\ LockUnchanged

\* The driver calls persist on a diff layer of the tree.
LockPersistCall(l) ==
    /\ LockOn
    /\ conc.writer.pc = "idle"
    /\ conc.kind[l] = "diff" /\ ~conc.stale[LockBase(conc, l)]
    /\ Cardinality(LockFree(conc)) >= LockDepth(conc, l)
    /\ conc' = [conc EXCEPT !.writer = [IdleLockWriter EXCEPT !.pc = "parent", !.op = "persist", !.dl = l]]
    /\ LockUnchanged

\* persist: dl.parentLayer(), under the read lock of dl.
LockPersistParent ==
    /\ LockOn
    /\ conc.writer.pc = "parent"
    /\ canRLock(conc.mu[conc.writer.dl])
    /\ conc' = [conc EXCEPT !.writer.pc = IF conc.kind[conc.parent[conc.writer.dl]] = "diff"
                                          THEN "lock" ELSE "todisk"]
    /\ LockUnchanged

\* persist: dl.lock.Lock() is called.
LockPersistLock ==
    /\ LockOn
    /\ conc.writer.pc = "lock"
    /\ conc' = [conc EXCEPT !.mu[conc.writer.dl].pend = TRUE, !.writer.pc = "locking"]
    /\ LockUnchanged

\* persist: dl.lock.Lock() returns, and parent.persist(force) is called.
LockPersistLocked ==
    /\ LockOn
    /\ conc.writer.pc = "locking"
    /\ canWLock(conc.mu[conc.writer.dl])
    /\ conc' = [conc EXCEPT !.mu[conc.writer.dl] = [@ EXCEPT !.w = TRUE, !.pend = FALSE],
                            !.writer = [@ EXCEPT !.pc = "parent", !.dl = conc.parent[conc.writer.dl],
                                                 !.outer = Append(@, conc.writer.dl)]]
    /\ LockUnchanged

\* diffToDisk: layer.parentLayer(), under the read lock of the layer, and
\* disk.commit up to markStale.
LockToDisk ==
    /\ LockOn
    /\ conc.writer.pc = "todisk"
    /\ canRLock(conc.mu[conc.writer.dl])
    /\ conc' = [conc EXCEPT !.writer = [@ EXCEPT !.pc = "stale", !.target = conc.parent[conc.writer.dl]]]
    /\ LockUnchanged

\* The driver calls revert on the disk layer of the tree.
LockRevertCall(d) ==
    /\ LockOn
    /\ conc.writer.pc = "idle"
    /\ conc.kind[d] = "disk" /\ ~conc.stale[d]
    /\ LockFree(conc) # {}
    /\ conc' = [conc EXCEPT !.writer = [IdleLockWriter EXCEPT !.pc = "apply", !.op = "revert", !.dl = d]]
    /\ LockUnchanged

\* revert: apply reads the nodes through the disk layer, before its lock is
\* taken.
LockRevertApply ==
    /\ LockOn
    /\ conc.writer.pc = "apply"
    /\ canRLock(conc.mu[conc.writer.dl])
    /\ conc' = [conc EXCEPT !.writer = [@ EXCEPT !.pc = "stale", !.target = conc.writer.dl]]
    /\ LockUnchanged

\* markStale: dl.lock.Lock() is called.
LockMarkStale ==
    /\ LockOn
    /\ conc.writer.pc = "stale"
    /\ conc' = [conc EXCEPT !.mu[conc.writer.target].pend = TRUE, !.writer.pc = "staling"]
    /\ LockUnchanged

\* markStale: the lock is granted, the flag set and the lock released; the
\* rest of commit or revert makes the new disk layer.
LockMarkedStale ==
    /\ LockOn
    /\ conc.writer.pc = "staling"
    /\ canWLock(conc.mu[conc.writer.target])
    /\ LET n == CHOOSE x \in LockFree(conc) : \A y \in LockFree(conc) : x <= y
       IN  conc' = [conc EXCEPT !.mu[conc.writer.target].pend = FALSE,
                                !.stale[conc.writer.target] = TRUE,
                                !.kind[n] = "disk",
                                !.writer = [@ EXCEPT !.pc = "ret", !.res = n]]
    /\ LockUnchanged

\* The return of commit or revert: to the driver, or into the persist of the
\* child, which links the child to the result, releases the write lock of
\* the child and calls diffToDisk on it.
LockReturn ==
    /\ LockOn
    /\ conc.writer.pc = "ret"
    /\ IF conc.writer.outer = << >>
       THEN conc' = [conc EXCEPT !.writer = IdleLockWriter]
       ELSE LET o == conc.writer.outer
                c == o[Len(o)]
            IN  conc' = [conc EXCEPT !.parent[c] = conc.writer.res,
                                     !.mu[c] = unlock(@),
                                     !.writer = [@ EXCEPT !.pc = "todisk", !.dl = c,
                                                          !.outer = SubSeq(o, 1, Len(o) - 1)]]
    /\ LockUnchanged

NextLock ==
    \/ \E t \in Threads, x \in LockRefs : LockReadCall(t, x)
    \/ \E t \in Threads, found \in BOOLEAN : LockReadRLock(t, found)
    \/ \E t \in Threads : LockReadRUnlock(t)
    \/ \E l \in LockRefs : LockPersistCall(l)
    \/ LockPersistParent
    \/ LockPersistLock
    \/ LockPersistLocked
    \/ LockToDisk
    \/ \E d \in LockRefs : LockRevertCall(d)
    \/ LockRevertApply
    \/ LockMarkStale
    \/ LockMarkedStale
    \/ LockReturn

SpecLock == InitLock /\ [][NextLock]_vars

\* A call that has been made goes on and a lock that can be taken is taken:
\* each goroutine is scheduled.
SpecLockFair ==
    /\ SpecLock
    /\ \A t \in Threads : WF_vars(\E found \in BOOLEAN : LockReadRLock(t, found))
    /\ \A t \in Threads : WF_vars(LockReadRUnlock(t))
    /\ WF_vars(LockPersistParent)
    /\ WF_vars(LockPersistLock)
    /\ WF_vars(LockPersistLocked)
    /\ WF_vars(LockToDisk)
    /\ WF_vars(LockRevertApply)
    /\ WF_vars(LockMarkStale)
    /\ WF_vars(LockMarkedStale)
    /\ WF_vars(LockReturn)

(***************************************************************************)
(* The metadata file of a freezer table: an rlp list of the version, the   *)
(* virtual tail and the index flush offset, written over the start of the  *)
(* file on every change and decoded from the whole file when it is opened. *)
(***************************************************************************)
freezerTableV1 == 1

freezerTableV2 == 2

\* Largest value a call sets: its encoding takes three bytes.
MaxMetaValue == 256

\* The values the calls set: each length of encoding occurs.
MetaValues == {0, 1, 128, MaxMetaValue}

\* The bytes of a positive integer, most significant first.
RECURSIVE BigEndian(_)
BigEndian(n) == IF n < 256 THEN <<n>> ELSE BigEndian(n \div 256) \o <<n % 256>>

\* rlp encoding of an unsigned integer: zero is the empty string.
RlpUint(n) == IF n = 0 THEN <<128>> ELSE RlpEncode(BigEndian(n))

\* rlp encoding of a list with a payload below 56 bytes.
RlpList(payload) == <<192 + Len(payload)>> \o payload

RECURSIVE FromBigEndian(_)
FromBigEndian(bytes) ==
    IF bytes = << >> THEN 0 ELSE FromBigEndian(SubSeq(bytes, 1, Len(bytes) - 1)) * 256 + bytes[Len(bytes)]

\* The unsigned integers of a list payload in order; ok is FALSE when the
\* payload is cut short or holds an integer that is not canonical.
RECURSIVE DecodeUints(_)
DecodeUints(payload) ==
    IF payload = << >> THEN [ok |-> TRUE, ints |-> << >>]
    ELSE LET b == payload[1]
             n == IF b < 128 THEN 0 ELSE b - 128
             content == IF b < 128 THEN <<b>> ELSE SubSeq(payload, 2, 1 + n)
             rest == DecodeUints(SubSeq(payload, 2 + n, Len(payload)))
         IN IF b >= 184 \/ 1 + n > Len(payload) THEN [ok |-> FALSE, ints |-> << >>]
            ELSE IF content # << >> /\ content[1] = 0 THEN [ok |-> FALSE, ints |-> << >>]
            ELSE IF b >= 128 /\ n = 1 /\ content[1] < 128 THEN [ok |-> FALSE, ints |-> << >>]
            ELSE IF ~rest.ok THEN rest
            ELSE [ok |-> TRUE, ints |-> <<FromBigEndian(content)>> \o rest.ints]

\* rlp.DecodeBytes into a struct of `fields` unsigned integers: the data must
\* be one list, with nothing after it, of exactly that many integers.
DecodeStruct(data, fields) ==
    IF data = << >> \/ data[1] < 192 \/ data[1] > 247 THEN [ok |-> FALSE, ints |-> << >>]
    ELSE IF Len(data) - 1 # data[1] - 192 THEN [ok |-> FALSE, ints |-> << >>]
    ELSE LET r == DecodeUints(SubSeq(data, 2, Len(data)))
         IN IF r.ok /\ Len(r.ints) = fields THEN r ELSE [ok |-> FALSE, ints |-> << >>]

NilMeta == [nil |-> TRUE, version |-> 0, virtualTail |-> 0, indexFlushOffset |-> 0]

\* decodeV1
decodeV1(data) ==
    LET o == DecodeStruct(data, 2)
    IN IF ~o.ok THEN NilMeta
       ELSE IF o.ints[1] # freezerTableV1 THEN NilMeta
       ELSE [nil |-> FALSE, version |-> freezerTableV2, virtualTail |-> o.ints[2], indexFlushOffset |-> 0]

\* decodeV2
decodeV2(data) ==
    LET o == DecodeStruct(data, 3)
    IN IF ~o.ok THEN NilMeta
       ELSE IF o.ints[1] # freezerTableV2 THEN NilMeta
       ELSE [nil |-> FALSE, version |-> freezerTableV2, virtualTail |-> o.ints[2],
             indexFlushOffset |-> o.ints[3]]

\* freezerTableMeta.write: Seek to the start, then the encoding is written
\* over the bytes there; what the file holds beyond it stays.
writeMeta(file, m) ==
    LET enc == RlpList(RlpUint(m.version) \o RlpUint(m.virtualTail) \o RlpUint(m.indexFlushOffset))
    IN enc \o SubSeq(file, Len(enc) + 1, Len(file))

\* newMetadata
newMetadata(file) ==
    IF Len(file) = 0
    THEN LET m == [nil |-> FALSE, version |-> freezerTableV2, virtualTail |-> 0, indexFlushOffset |-> 0]
         IN [m |-> m, file |-> writeMeta(file, m), err |-> ""]
    ELSE IF ~decodeV2(file).nil THEN [m |-> decodeV2(file), file |-> file, err |-> ""]
    ELSE IF ~decodeV1(file).nil
    THEN [m |-> decodeV1(file), file |-> writeMeta(file, decodeV1(file)), err |-> ""]
    ELSE [m |-> NilMeta, file |-> file, err |-> "failed to decode metadata"]

\* The files a table is opened on for the first time: none yet, one a
\* legacy version left, one this version left.
LegacyFiles == {RlpList(RlpUint(freezerTableV1) \o RlpUint(t)) : t \in MetaValues}

InitMeta ==
    /\ InitStore
    /\ diskdb = StoreOf(EmptyWorld)
    /\ ~freezer.enabled /\ freezer.limit = 0
    /\ reader = NoReader /\ conc = NoConc
    /\ gen = NoGen /\ pruner = NoPruner
    /\ \E f \in {<< >>} \cup LegacyFiles :
          hist = [on |-> TRUE, meta |-> TRUE, open |-> FALSE, file |-> f, m |-> NilMeta, err |-> "",
                  first |-> f, opens |-> 0,
                  tail |-> IF f = << >> THEN 0 ELSE decodeV1(f).virtualTail, offset |-> 0]

MetaOn == hist.on /\ "meta" \in DOMAIN hist

MetaUnchanged ==
    UNCHANGED <<layers, disk, buffer, diskdb, freezer, generator, status, lastErr, trail, reverted, obs,
                reader, conc, gen, pruner>>

\* The table is opened: newMetadata on the file as it is.
MetaOpen ==
    /\ MetaOn /\ ~hist.open /\ hist.err = ""
    /\ LET r == newMetadata(hist.file)
       IN hist' = [hist EXCEPT !.open = r.err = "", !.m = r.m, !.file = r.file, !.err = r.err,
                               !.opens = IF @ < 2 THEN @ + 1 ELSE @]
    /\ MetaUnchanged

\* setVirtualTail
MetaSetVirtualTail(tail) ==
    /\ MetaOn /\ hist.open
    /\ hist' = [hist EXCEPT !.m.virtualTail = tail, !.tail = tail,
                            !.file = writeMeta(@, [hist.m EXCEPT !.virtualTail = tail])]
    /\ MetaUnchanged

\* setIndexFlushOffset
MetaSetIndexFlushOffset(offset) ==
    /\ MetaOn /\ hist.open
    /\ hist' = [hist EXCEPT !.m.indexFlushOffset = offset, !.offset = offset,
                            !.file = writeMeta(@, [hist.m EXCEPT !.indexFlushOffset = offset])]
    /\ MetaUnchanged

\* The table is closed: the file stays as it was written.
MetaClose ==
    /\ MetaOn /\ hist.open
    /\ hist' = [hist EXCEPT !.open = FALSE, !.m = NilMeta]
    /\ MetaUnchanged

NextMeta ==
    \/ MetaOpen
    \/ \E tail \in MetaValues : MetaSetVirtualTail(tail)
    \/ \E offset \in MetaValues : MetaSetIndexFlushOffset(offset)
    \/ MetaClose

SpecMeta == InitMeta /\ [][NextMeta]_vars

(***************************************************************************)
(* Properties of the layered store.                                        *)
(***************************************************************************)
\* C1: whenever the disk layer of the tree is live, the persistent state id
\* in the store plus the layers counter of the node buffer equals the state
\* id of that disk layer: after update, commit with or without a flush,
\* revert into the buffer or into the store, and a journal load.
C1_StateIdAccounting ==
    ~layers[disk].stale => ReadPersistentStateID(diskdb) + buffer.layers = layers[disk].id

\* A revert into the buffer has just completed and left one transition in it.
C1_Witness ==
    /\ reverted # None
    /\ buffer.layers = 1
    /\ ReadPersistentStateID(diskdb) = 0
    /\ layers[disk].id = 1

\* The nodes of the diff layer l as the store holds them after a forced persist.
NodesStored(l, db) ==
    \A k \in DOMAIN layers[l].nodes :
        IF IsDeleted(layers[l].nodes[k]) THEN k \notin DOMAIN db.nodes
        ELSE k \in DOMAIN db.nodes /\ db.nodes[k] = layers[l].nodes[k].blob

\* C4: a forced persist of a diff layer that sits on the disk layer returns
\* a disk layer with the root and the state id of that diff layer, sets the
\* persistent state id to that id, leaves the node buffer empty (no layers,
\* size zero, no nodes), stores every node of the diff layer that is not
\* deleted under its key and removes the key of every deleted node.
C4_ForcedPersist ==
    [][\A l \in Refs :
          (/\ layers[l].kind = "diff" /\ layers[l].parent = disk
           /\ Commit(l, TRUE) /\ lastErr' = "" /\ status' = "running")
          => /\ layers'[disk'].kind = "disk" /\ ~layers'[disk'].stale
             /\ layers'[disk'].root = layers[l].root
             /\ layers'[disk'].id = layers[l].id
             /\ ReadPersistentStateID(diskdb') = layers[l].id
             /\ buffer'.layers = 0 /\ buffer'.size = 0 /\ buffer'.nodes = EmptyMap
             /\ NodesStored(l, diskdb')]_vars

\* One transition has been flushed, and it deleted the leaf of an account
\* that the store held before.
C4_Witness ==
    /\ Len(trail) = 1
    /\ ReadPersistentStateID(diskdb) = 1
    /\ layers[disk].id = 1
    /\ buffer.layers = 0
    /\ \E a \in Addrs : /\ AccountLeafKey(a) \in DOMAIN trail[1].diskdb.nodes
                        /\ AccountLeafKey(a) \notin DOMAIN diskdb.nodes

\* The layers from l down to the disk layer.
RECURSIVE Chain(_, _)
Chain(ls, r) == IF ls[r].kind = "diff" THEN {r} \cup Chain(ls, ls[r].parent) ELSE {r}

\* The layer nearest to l, at or below it, whose table holds the key; the
\* disk layer when no diff layer holds it.
Nearest(l, table, key) ==
    LET holders == {r \in Chain(layers, l) : layers[r].kind = "diff" /\ key \in DOMAIN layers[r][table]}
    IN IF holders = {} THEN disk
       ELSE CHOOSE r \in holders : \A q \in holders : Depth(layers, q) <= Depth(layers, r)

\* What the disk layer answers: the buffer's entry, else the store's.
DiskEntry(table, key) ==
    IF key \in DOMAIN buffer[table]
    THEN IF table = "nodes" THEN buffer.nodes[key].blob ELSE buffer[table][key]
    ELSE Lookup(diskdb[table], key)

NearestEntry(l, table, key) ==
    IF Nearest(l, table, key) = disk THEN DiskEntry(table, key)
    ELSE IF table = "nodes" THEN layers[Nearest(l, table, key)].nodes[key].blob
    ELSE layers[Nearest(l, table, key)][table][key]

FlatAccountKeys == {AddrHash(a) : a \in Addrs}

FlatStorageKeys == {StorageKey(a, s) : a \in Addrs, s \in Slots}

\* C5: a node, account or storage read on a layer of the tree returns the
\* entry of the nearest layer at or below it that holds the key; a key held
\* by no diff layer is answered by the disk layer, from its buffer first and
\* from the store otherwise.
C5_NearestLayer ==
    \A l \in Refs :
        (InTree(l) /\ ~layers[disk].stale) =>
            /\ \A k \in NodeKeys : node(Mem, l, k).err = "" /\ node(Mem, l, k).blob = NearestEntry(l, "nodes", k)
            /\ \A h \in FlatAccountKeys :
                   account(Mem, l, h).err = "" /\ account(Mem, l, h).blob = NearestEntry(l, "accounts", h)
            /\ \A h \in FlatStorageKeys :
                   storage(Mem, l, h).err = "" /\ storage(Mem, l, h).blob = NearestEntry(l, "storages", h)

\* Two stacked diff layers hold different entries for one node, a second
\* node is held by the lower one only, and a third by neither of them.
C5_Witness ==
    \E l \in Refs :
        /\ InTree(l) /\ layers[l].kind = "diff" /\ layers[layers[l].parent].kind = "diff"
        /\ \E k \in DOMAIN layers[l].nodes \cap DOMAIN layers[layers[l].parent].nodes :
               layers[l].nodes[k] # layers[layers[l].parent].nodes[k]
        /\ \E k \in DOMAIN layers[layers[l].parent].nodes : k \notin DOMAIN layers[l].nodes
        /\ \E k \in NodeKeys :
               k \notin DOMAIN layers[l].nodes /\ k \notin DOMAIN layers[layers[l].parent].nodes


\* What a read of the given table found at the state a trail entry recorded:
\* the buffer's entry, else the store's.
EntryAt(sn, table, key) ==
    IF key \in DOMAIN sn.buffer[table]
    THEN IF table = "nodes" THEN sn.buffer.nodes[key].blob ELSE sn.buffer[table][key]
    ELSE Lookup(sn.diskdb[table], key)

\* C3 as stated: a revert that undoes a commit yields a disk layer with the
\* root and the state id the disk layer had before that commit, and a
\* key-value store identical to the store before that commit.
C3_StoreIdentical ==
    reverted # None =>
        /\ layers[disk].root = reverted.root
        /\ layers[disk].id = reverted.id
        /\ diskdb = reverted.diskdb

\* C3, amended: a revert that undoes a commit yields a live disk layer with
\* the root and the state id the disk layer had before that commit, through
\* which every node, account and storage read returns what it returned
\* before that commit.
C3_RevertRoundTrip ==
    reverted # None =>
        /\ layers[disk].root = reverted.root
        /\ layers[disk].id = reverted.id
        /\ ~layers[disk].stale
        /\ \A k \in NodeKeys :
               diskNode(Mem, disk, k).err = "" /\ diskNode(Mem, disk, k).blob = EntryAt(reverted, "nodes", k)
        /\ \A h \in FlatAccountKeys :
               diskAccount(Mem, disk, h).err = "" /\ diskAccount(Mem, disk, h).blob = EntryAt(reverted, "accounts", h)
        /\ \A h \in FlatStorageKeys :
               diskStorage(Mem, disk, h).err = "" /\ diskStorage(Mem, disk, h).blob = EntryAt(reverted, "storages", h)

\* A revert has undone a commit whose starting state had a transition in the
\* buffer that has been flushed since: the nodes of the store are not those
\* of the store before the commit.
C3_Witness ==
    /\ reverted # None
    /\ reverted.buffer.layers > 0
    /\ diskdb.nodes # reverted.diskdb.nodes
    /\ layers[disk].root = reverted.root


\* The state id of the diff layer l is the state id of its parent plus one.
Linked(ls, l) == ls[ls[l].parent].id + 1 = ls[l].id

\* C2: every diff layer of the tree carries the state id of its parent plus
\* one, whatever update, persist (which re-homes the diff layers onto the
\* disk layer it has created) and journal load did before.
C2_AlwaysLinked ==
    \A l \in Refs : (InTree(l) /\ layers[l].kind = "diff") => Linked(layers, l)

\* A journal load has rebuilt the tree after a commit of the layer with state
\* id 1: the trail of commits is empty, the disk layer carries state id 1 and
\* a diff layer with state id 2 rests on it.
C2_Witness ==
    /\ status = "running"
    /\ trail = << >>
    /\ layers[disk].id = 1
    /\ \E l \in Refs : InTree(l) /\ layers[l].kind = "diff" /\ layers[l].parent = disk /\ layers[l].id = 2


\* The disk layers that have not been marked stale.
LiveDisks == {r \in Refs : layers[r].kind = "disk" /\ ~layers[r].stale}

\* C6: a commit into a disk layer that is stale already never produces a
\* second successor disk layer.  Every commit into a live disk layer turns
\* it stale and yields one live successor, so that two live disk layers
\* exist only once a stale disk layer has been committed into again.
C6_SingleSuccessor == Cardinality(LiveDisks) <= 1

\* The read a reader is in, done in one step on the state as it stands.
ReadAtOnce(r) ==
    IF r.op = "node" THEN [blob |-> diskNode(Mem, r.dl, r.key).blob, err |-> diskNode(Mem, r.dl, r.key).err]
    ELSE IF r.op = "account" THEN diskAccount(Mem, r.dl, r.key)
    ELSE diskStorage(Mem, r.dl, r.key)

\* A reader past its stale check and not yet returned.
Reading(r) == r.pc \in {"buffer", "store"} \/ (r.pc = "done" /\ r.err # errSnapshotStale)

ReadsSettled ==
    \A t \in Threads :
        /\ Reading(conc.readers[t]) => ~layers[conc.readers[t].dl].stale
        /\ conc.readers[t].pc = "done" =>
               \/ conc.readers[t].err = errSnapshotStale /\ conc.readers[t].blob = << >>
               \/ [blob |-> conc.readers[t].blob, err |-> conc.readers[t].err] = ReadAtOnce(conc.readers[t])

\* C7: with readers interleaved with one commit or revert, a read on a disk
\* layer that got past the stale check runs on a layer that is not stale yet
\* and returns what the buffer and the store hold, unchanged since it began;
\* any other read returns the Stale error with no data; and no step changes
\* the buffer or the store while a reader is between its stale check and its
\* return.
C7_ReadsIsolated ==
    [][/\ ReadsSettled'
       /\ (buffer' # buffer \/ diskdb' # diskdb) => \A t \in Threads : ~Reading(conc.readers[t])]_vars

\* A reader was handed the Stale error and no data by the disk layer that a
\* commit has marked stale and whose buffer the commit has changed since.
C7_Witness ==
    /\ conc.on /\ conc.writer.pc = "merged"
    /\ \E t \in Threads :
           /\ conc.readers[t].pc = "done" /\ conc.readers[t].err = errSnapshotStale
           /\ conc.readers[t].dl = conc.writer.dl
    /\ buffer # conc.writer.m0.buffer

\* No diff layer from l down, nor the buffer, nor the store holds the key.
Absent(l, key) ==
    /\ \A r \in Chain(layers, l) : layers[r].kind = "diff" => key \notin DOMAIN layers[r].nodes
    /\ key \notin DOMAIN buffer.nodes
    /\ key \notin DOMAIN diskdb.nodes

\* C8: a node read through a live disk layer, of a key that no diff layer,
\* nor the buffer, nor the store holds, returns the empty blob and no
\* error whatever the expected hash is.
C8_MissingNodeNoError ==
    (/\ obs.op = "Node"
     /\ ~layers[BaseOf(layers, obs.layer)].stale
     /\ Absent(obs.layer, obs.key))
    => obs.res.err = "" /\ obs.res.blob = << >>


\* a is lexicographically greater than b: greater at the first byte where
\* they differ, or a proper extension of b.
LexGreater(a, b) ==
    \/ \E i \in 1..Len(a) : /\ i <= Len(b) /\ a[i] > b[i]
                            /\ \A j \in 1..(i - 1) : a[j] = b[j]
    \/ Len(a) > Len(b) /\ \A j \in 1..Len(b) : a[j] = b[j]

\* Generation is complete: no generator is linked, or it is done.
MarkerNil == ~generator.linked \/ generator.done

\* C9: an account or storage read that no diff layer and not the buffer
\* answers returns NotCoveredYet exactly when generation is incomplete and
\* the key (the account hash, or the account hash followed by the slot hash)
\* is lexicographically greater than the progress marker; otherwise it
\* returns the entry of the flat table.  When generation is complete no read
\* returns NotCoveredYet.
C9_NotCoveredYet ==
    obs.op \in {"account", "storage"} =>
        /\ (/\ Nearest(obs.layer, obs.table, obs.key) = disk
            /\ obs.key \notin DOMAIN buffer[obs.table]
            /\ ~layers[disk].stale)
           => IF ~MarkerNil /\ LexGreater(obs.key, generator.marker)
              THEN obs.res.err = errNotCoveredYet /\ obs.res.blob = << >>
              ELSE obs.res.err = "" /\ obs.res.blob = Lookup(diskdb[obs.table], obs.key)
        /\ MarkerNil => obs.res.err # errNotCoveredYet

\* A storage read found the marker at the slot's own account: the key extends
\* the marker and is not covered yet.
C9_Witness ==
    /\ obs.op = "storage"
    /\ ~MarkerNil
    /\ generator.marker = SubSeq(obs.key, 1, 1)
    /\ obs.res.err = errNotCoveredYet


\* The last read called the named backend.
InCalls(name) == \E i \in 1..Len(obs.calls) : obs.calls[i] = name

\* The snapshot backend as the last read met it: the stateReader of a
\* multiReader, the snapshot of a merkleReader.
FirstBackend ==
    IF obs.kind = "multi"
    THEN IF obs.op = "Account" THEN stateReaderAccount(obs.before, obs.addr)
         ELSE stateReaderStorage(obs.before, obs.addr, obs.slot)
    ELSE IF obs.op = "Account" THEN obs.before.snapAccount
    ELSE obs.before.snapStorage

\* The value of the snapshot backend's answer, in the form a reader returns.
FirstValue ==
    IF obs.kind = "multi" THEN FirstBackend.val
    ELSE IF obs.op = "Account" THEN StateAccount(FirstBackend.val)
    ELSE IF Len(FirstBackend.val) = 0 THEN << >>
    ELSE RlpSplit(FirstBackend.val).content

\* The trie backend as the last read would meet it after the snapshot.
SecondBackend ==
    IF obs.kind = "multi"
    THEN IF obs.op = "Account" THEN trieReaderAccount(Called(obs.before, "snap"), obs.addr)
         ELSE trieReaderStorage(Called(obs.before, "snap"), obs.addr, obs.slot)
    ELSE IF obs.op = "Account" THEN obs.before.trieAccount
    ELSE merkleStorageTrie(Called(obs.before, "snap"), obs.addr)

\* The answer of the first backend without error, the trie's otherwise.
FirstOk ==
    IF FirstBackend.err = ""
    THEN obs.err = "" /\ obs.val = FirstValue /\ ~InCalls("trie")
    ELSE /\ InCalls("trie")
         /\ obs.val = SecondBackend.val
         /\ obs.err = "" <=> SecondBackend.err = ""

\* C10 as stated: a read through the reader returns the answer of the first
\* backend, snapshot before trie, that returns no error, does not call the
\* trie when the snapshot answered, and fails only when both backends fail.
C10_FirstOk == obs.op \in {"Account", "Storage"} => FirstOk

\* The snapshot of a merkleReader answered a storage read with a value that
\* is no rlp string.
Undecodable ==
    /\ obs.kind = "merkle" /\ obs.op = "Storage"
    /\ obs.before.snapStorage.err = ""
    /\ Len(obs.before.snapStorage.val) > 0
    /\ RlpSplit(obs.before.snapStorage.val).err # ""

\* C10, amended: as stated, except that a merkleReader whose snapshot
\* answers a storage read with a value that does not decode returns the
\* decoding error without calling the trie.
C10_FirstOkOrDecodeError ==
    obs.op \in {"Account", "Storage"} =>
        IF Undecodable
        THEN obs.err = RlpSplit(obs.before.snapStorage.val).err /\ ~InCalls("trie")
        ELSE FirstOk

\* A storage read through the multiReader met a snapshot that does not
\* cover the slot yet and returned the value of the trie.
C10_Witness ==
    /\ obs.op = "Storage" /\ obs.kind = "multi"
    /\ obs.before.snapStorage.err = errNotCoveredYet
    /\ obs.err = ""
    /\ obs.val = <<200>>
    /\ InCalls("trie")


\* The state a layer stands for, found from its root, and the value a read
\* of that state returns.
WorldOfRoot(root) == CHOOSE w \in Worlds : StateRoot(w) = root

ValueAt(l, op, key) == Lookup(StoreOf(WorldOfRoot(layers[l].root))[TableOf(op)], key)

\* C11 as stated: under any interleaving of readers with the flattenings of
\* the driver, every read returns the values of the state of the layer it
\* was started on, a single state, never a mixture and never an error.
C11_EveryReadReturns ==
    \A t \in Threads :
        conc.readers[t].pc = "done" =>
            /\ conc.readers[t].err = ""
            /\ conc.readers[t].blob = ValueAt(conc.readers[t].start, conc.readers[t].op, conc.readers[t].key)

\* C11: under any interleaving of readers with the flattenings of the
\* driver, a read that returns data returns the value of the state of the
\* single layer it was started on, whichever layers it walked through and
\* whatever was flattened meanwhile; a read that returns no data fails with
\* the Stale error, and only when it was started on a layer outside the tree
\* or while or before a flattening ran: a read started on a layer of the
\* tree after the last flattening completed always returns data.
C11_SingleLayerOrStale ==
    \A t \in Threads :
        conc.readers[t].pc = "done" =>
            IF conc.readers[t].err = ""
            THEN conc.readers[t].blob = ValueAt(conc.readers[t].start, conc.readers[t].op, conc.readers[t].key)
            ELSE /\ conc.readers[t].err = errSnapshotStale
                 /\ conc.readers[t].blob = << >>
                 /\ ~conc.readers[t].fresh

\* Two flattenings have completed, and a read started before the second on
\* a layer that has left the tree since returned that layer's value, which
\* differs from the value the new disk layer holds.
C11_Witness ==
    /\ layers[disk].id >= 2
    /\ conc.writer.pc = "idle"
    /\ \E t \in Threads :
          /\ conc.readers[t].pc = "done" /\ conc.readers[t].err = ""
          /\ ~InTree(conc.readers[t].start)
          /\ conc.readers[t].blob = ValueAt(conc.readers[t].start, conc.readers[t].op, conc.readers[t].key)
          /\ conc.readers[t].blob # ValueAt(disk, conc.readers[t].op, conc.readers[t].key)


\* The store without its root -> id lookups.
FlushedPart(db) == [db EXCEPT !.stateIDs = EmptyMap]

\* The store holds nothing of the transition that the crashed commit was making.
NoneWritten ==
    /\ FlushedPart(diskdb) = FlushedPart(conc.writer.m0.diskdb)
    /\ layers[conc.writer.bottom].root \notin DOMAIN diskdb.stateIDs

\* The nodes and states of the flattened layer and its state id are in the store.
BatchWritten ==
    FlushedPart(diskdb) =
        FlushedPart([StoreOf(WorldOfRoot(layers[conc.writer.bottom].root))
                        EXCEPT !.pid = layers[conc.writer.bottom].id])

LookupWritten ==
    /\ layers[conc.writer.bottom].root \in DOMAIN diskdb.stateIDs
    /\ diskdb.stateIDs[layers[conc.writer.bottom].root] = layers[conc.writer.bottom].id

\* C12 as stated: after a crash inside a persist the store holds the whole
\* transition (the flushed nodes, the new persistent state id, the lookup
\* of the history) or none of it.
C12_AllOrNothing ==
    status = "crashed" => NoneWritten \/ (BatchWritten /\ LookupWritten)

\* C12: after a crash inside a persist the nodes, the flat states and the
\* persistent state id are in the store all together or not at all, and
\* when they are in the store the lookup of the history is there as well;
\* the lookup alone may have been written.
C12_BatchAtomic ==
    status = "crashed" =>
        \/ FlushedPart(diskdb) = FlushedPart(conc.writer.m0.diskdb)
        \/ BatchWritten /\ LookupWritten

\* The crash came after the flush: the store holds the nodes of the
\* flattened layer, which it did not hold before, under the new state id.
C12_Witness ==
    /\ status = "crashed"
    /\ conc.writer.pc = "flushed"
    /\ BatchWritten /\ LookupWritten
    /\ diskdb.nodes # conc.writer.m0.diskdb.nodes
    /\ diskdb.pid # conc.writer.m0.diskdb.pid


\* C13 as stated: for every history, decoding the four streams that encode
\* produced succeeds and reproduces the accounts, the storages, the sorted
\* account list and the sorted slot lists.
C13_RoundTripAny ==
    hist.pc = "decoded" /\ hist.edits = 0 => hist.res.err = "" /\ hist.res.h = hist.h

\* C13: for every history with at least one account and no account whose
\* set of slots is empty, decoding the four streams that encode produced
\* succeeds and reproduces the accounts, the storages, the sorted account
\* list and the sorted slot lists.
C13_RoundTrip ==
    (/\ hist.pc = "decoded" /\ hist.edits = 0
     /\ DOMAIN hist.h.accounts # {}
     /\ \A a \in DOMAIN hist.h.storages : DOMAIN hist.h.storages[a] # {})
        => hist.res.err = "" /\ hist.res.h = hist.h

\* A history of two accounts, the zero address among them, one with two
\* slots and one with none, was encoded and decoded back to itself.
C13_Witness ==
    /\ hist.pc = "decoded" /\ hist.edits = 0
    /\ DOMAIN hist.h.accounts = HistAddrs
    /\ \E a \in HistAddrs : DOMAIN hist.h.storages = {a} /\ DOMAIN hist.h.storages[a] = HistSlots
                            /\ \A k \in HistSlots : hist.h.storages[a][k] # << >>
    /\ hist.res.err = "" /\ hist.res.h = hist.h
    /\ Len(hist.st.storageIndexes) = 2 * slotIndexSize


\* The index records of the stored streams, counted from zero.
NumAccountIndexes == Len(hist.st.accountIndexes) \div accountIndexSize

NumSlotIndexes == Len(hist.st.storageIndexes) \div slotIndexSize

AccountIndexAt(i) ==
    accountIndexDecode(SubSeq(hist.st.accountIndexes, i * accountIndexSize + 1, (i + 1) * accountIndexSize))

SlotIndexAt(k) ==
    slotIndexDecode(SubSeq(hist.st.storageIndexes, k * slotIndexSize + 1, (k + 1) * slotIndexSize))

\* The slot indexes that the accounts before the account i lay claim to.
RECURSIVE SlotsBefore(_)
SlotsBefore(i) == IF i = 0 THEN 0 ELSE SlotsBefore(i - 1) + AccountIndexAt(i - 1).storageSlots

\* The slot indexes an account refers to, as far as the stream holds them.
SlotsReferred ==
    {k \in 0..(NumSlotIndexes - 1) :
        \E i \in 0..(NumAccountIndexes - 1) :
            k >= AccountIndexAt(i).storageOffset
            /\ k < AccountIndexAt(i).storageOffset + AccountIndexAt(i).storageSlots}

AccountsUnordered ==
    \E i \in 1..(NumAccountIndexes - 1) : AccountIndexAt(i).address <= AccountIndexAt(i - 1).address

SlotsUnordered ==
    \E i \in 0..(NumAccountIndexes - 1) :
        \E k \in (AccountIndexAt(i).storageOffset + 1)
                     ..(AccountIndexAt(i).storageOffset + AccountIndexAt(i).storageSlots - 1) :
            k < NumSlotIndexes /\ SlotIndexAt(k).hash <= SlotIndexAt(k - 1).hash

AccountDataGapped ==
    \E i \in 0..(NumAccountIndexes - 1) :
        AccountIndexAt(i).offset #
            (IF i = 0 THEN 0 ELSE AccountIndexAt(i - 1).offset + AccountIndexAt(i - 1).length)

SlotIndexGapped ==
    \E i \in 0..(NumAccountIndexes - 1) :
        AccountIndexAt(i).storageSlots > 0 /\ AccountIndexAt(i).storageOffset # SlotsBefore(i)

SlotDataGapped ==
    \E k \in SlotsReferred :
        SlotIndexAt(k).offset # (IF k = 0 THEN 0 ELSE SlotIndexAt(k - 1).offset + SlotIndexAt(k - 1).length)

\* C14: decoding fails with an error and leaves the receiver without a
\* history whenever the account indexes are not strictly ascending by
\* address, the slot indexes of an account are not strictly ascending by
\* hash, or the offset of an account entry, of the slot indexes of an
\* account or of a slot entry is not the previous offset plus length.
C14_UnorderedOrGappedFails ==
    (/\ hist.pc = "decoded"
     /\ AccountsUnordered \/ SlotsUnordered \/ AccountDataGapped \/ SlotIndexGapped \/ SlotDataGapped)
        => hist.res.err # "" /\ hist.res.h = NoHistory

\* The slot indexes of the second of two accounts were made to begin where
\* those of the first begin, an overlap, and the decoder refused them as
\* gapped.
C14_Witness ==
    /\ hist.pc = "decoded" /\ hist.edits = 1
    /\ SlotIndexGapped
    /\ ~AccountsUnordered /\ ~AccountDataGapped
    /\ NumAccountIndexes = 2 /\ NumSlotIndexes = 2
    /\ AccountIndexAt(1).storageOffset = AccountIndexAt(0).storageOffset
    /\ hist.res.err = "storage index buffer is gapped" /\ hist.res.h = NoHistory


\* An index refers past the end of the stream it indexes.
UnderRun ==
    \/ \E i \in 0..(NumAccountIndexes - 1) :
          \/ AccountIndexAt(i).offset + AccountIndexAt(i).length > Len(hist.st.accountData)
          \/ AccountIndexAt(i).storageSlots > 0
             /\ AccountIndexAt(i).storageOffset + AccountIndexAt(i).storageSlots > NumSlotIndexes
    \/ \E k \in SlotsReferred : SlotIndexAt(k).offset + SlotIndexAt(k).length > Len(hist.st.storageData)

\* A stream holds a byte, or a slot index, that no index entry accounts for.
OverRun ==
    \/ \E b \in 1..Len(hist.st.accountData) :
          \A i \in 0..(NumAccountIndexes - 1) :
              ~(AccountIndexAt(i).offset < b /\ b <= AccountIndexAt(i).offset + AccountIndexAt(i).length)
    \/ \E k \in 0..(NumSlotIndexes - 1) : k \notin SlotsReferred
    \/ \E b \in 1..Len(hist.st.storageData) :
          \A k \in SlotsReferred :
              ~(SlotIndexAt(k).offset < b /\ b <= SlotIndexAt(k).offset + SlotIndexAt(k).length)

\* C15 as stated: decoding fails whenever an index refers past the end of
\* its data stream or a stream holds bytes that no index entry accounts for.
C15_RunsFail ==
    hist.pc = "decoded" /\ (UnderRun \/ OverRun) => hist.res.err # ""


\* The id of the newest history of a freezer.
HeadOf(fr) == fr.tail + Len(fr.items)

\* C16: on a freezer holding the histories tail+1..head, TruncateHead to n
\* with tail <= n <= head succeeds, leaves exactly the histories tail+1..n
\* readable and unchanged, leaves no lookup for the root of any removed
\* history, and returns head - n.
C16_TruncateHead ==
    (hist.op = "head" /\ hist.fr.tail <= hist.target /\ hist.target <= HeadOf(hist.fr)) =>
        /\ hist.err = ""
        /\ \A id \in 1..MaxHistories :
              /\ readHistory(freezer, id).err = "" <=> (id > hist.fr.tail /\ id <= hist.target)
              /\ readHistory(freezer, id).err = "" => readHistory(freezer, id) = readHistory(hist.fr, id)
              /\ (id > hist.target /\ id <= HeadOf(hist.fr))
                     => readHistory(hist.fr, id).h.root \notin DOMAIN diskdb.stateIDs
        /\ hist.n = HeadOf(hist.fr) - hist.target

\* Two histories were removed from the head and one below them was kept;
\* the lookups of the removed ones had been in the store.
C16_Witness ==
    /\ hist.op = "head" /\ hist.err = ""
    /\ hist.n = 2
    /\ Len(freezer.items) = 1
    /\ \A id \in (hist.target + 1)..HeadOf(hist.fr) : readHistory(hist.fr, id).h.root \in DOMAIN hist.db.stateIDs

\* C17: on a freezer holding the histories tail+1..head, TruncateTail to n
\* with tail <= n <= head succeeds, leaves exactly the histories n+1..head
\* readable and unchanged, leaves no lookup for the root of any removed
\* history, and returns n - tail; to the head it leaves no history, to the
\* tail it changes nothing.
C17_TruncateTail ==
    (hist.op = "tail" /\ hist.fr.tail <= hist.target /\ hist.target <= HeadOf(hist.fr)) =>
        /\ hist.err = ""
        /\ \A id \in 1..MaxHistories :
              /\ readHistory(freezer, id).err = "" <=> (id > hist.target /\ id <= HeadOf(hist.fr))
              /\ readHistory(freezer, id).err = "" => readHistory(freezer, id) = readHistory(hist.fr, id)
              /\ (id > hist.fr.tail /\ id <= hist.target)
                     => readHistory(hist.fr, id).h.root \notin DOMAIN diskdb.stateIDs
        /\ hist.n = hist.target - hist.fr.tail
        /\ hist.target = HeadOf(hist.fr) => freezer.items = << >>
        /\ hist.target = hist.fr.tail => freezer = hist.fr /\ diskdb = hist.db /\ hist.n = 0

\* On a freezer whose tail had moved already, one of two histories was
\* removed from the tail and the other was kept; the lookup of the removed
\* one had been in the store.
C17_Witness ==
    /\ hist.op = "tail" /\ hist.err = ""
    /\ hist.fr.tail = 1 /\ Len(hist.fr.items) = 2
    /\ hist.n = 1
    /\ Len(freezer.items) = 1
    /\ readHistory(hist.fr, 2).h.root \in DOMAIN hist.db.stateIDs


(***************************************************************************)
(* C18: every marker the snapshot generator writes to the store is         *)
(* lexicographically at or above the marker that was there before, through *)
(* aborts, crashes and resumptions, until the generation completes and the *)
(* marker is set to nil.                                                   *)
(***************************************************************************)
C18_MarkerNonDecreasing ==
    [][(gen.on /\ ~gen.stored.done /\ gen'.stored # gen.stored)
          => (gen'.stored.done \/ BytesCompare(gen'.stored.marker, gen.stored.marker) >= 0)]_vars

\* A resumed run has written a marker inside an account's storage.
C18_Witness ==
    /\ gen.on /\ gen.aborts >= 1 /\ gen.writes >= 1
    /\ ~gen.stored.done /\ Len(gen.stored.marker) > HashLength
    /\ gen.pc \in {"slot", "account"}

(***************************************************************************)
(* C19: in every state, the flat account and storage rows whose keys are   *)
(* at or below the marker in the store equal the trie: each row has the    *)
(* trie's value, no trie entry is missing, and no storage row belongs to   *)
(* an account that the trie lacks or that has an empty storage root.       *)
(***************************************************************************)
RowOf(table, k) == IF k \in DOMAIN table THEN table[k] ELSE << >>

StoredProgress == IF gen.stored.done THEN NilMarker ELSE [nil |-> FALSE, key |-> gen.stored.marker]

C19_FlatAgreesUpToMarker ==
    gen.on =>
      /\ \A a \in Addrs : Covered(StoredProgress, AddrHash(a))
            => RowOf(diskdb.accounts, AddrHash(a)) = GenAccountBlob(gen.w, a)
      /\ \A a \in Addrs, s \in GenSlots : Covered(StoredProgress, StorageKey(a, s))
            => /\ RowOf(diskdb.storages, StorageKey(a, s)) = SlotBlob(gen.w.slot[<<a, s>>])
               /\ (gen.w.bal[a] = 0 \/ ~GenHasStorage(gen.w, a)) => StorageKey(a, s) \notin DOMAIN diskdb.storages

\* The generator stopped part of the way, a state transition was flushed,
\* rows below the marker are in use and a row above it is still wrong.
C19_Witness ==
    /\ gen.on /\ ~gen.stored.done /\ gen.flushes >= 1 /\ gen.aborts >= 1
    /\ \E a \in Addrs : Covered(StoredProgress, AddrHash(a)) /\ gen.w.bal[a] # 0
    /\ \E a \in Addrs, s \in GenSlots : /\ Covered(StoredProgress, StorageKey(a, s)) /\ gen.w.slot[<<a, s>>] # 0
    /\ \E a \in Addrs, s \in GenSlots :
          /\ ~Covered(StoredProgress, StorageKey(a, s))
          /\ RowOf(diskdb.storages, StorageKey(a, s)) # SlotBlob(gen.w.slot[<<a, s>>])

(***************************************************************************)
(* C20: once Prune has completed, every node and code of the target state  *)
(* and of the genesis state that the store held is still there unchanged,  *)
(* every other entry keyed by a hash or a code key is gone unless the      *)
(* filter reports it by a false positive, and the entries of other shapes  *)
(* are as before, except the snapshot's root, rows and journal, which the  *)
(* merge of the snapshot layers onto the target rewrites.                  *)
(***************************************************************************)
LiveKeys(st) == {HashKey(Hash(b)) : b \in TrieNodes(st)} \cup {CodeKey(Hash(c)) : c \in Codes(st)}

LiveKept ==
    \A k \in LiveKeys(pruner.target) \cup LiveKeys(pruner.genesis) :
        k \in DOMAIN pruner.before => k \in DOMAIN pruner.db /\ pruner.db[k] = pruner.before[k]

StaleGone ==
    \A k \in DOMAIN pruner.before :
        (/\ k.shape # "other"
         /\ k \notin LiveKeys(pruner.target) \cup LiveKeys(pruner.genesis)
         /\ k.id \notin pruner.fp) => k \notin DOMAIN pruner.db

SameEntry(k) ==
    /\ k \in DOMAIN pruner.before <=> k \in DOMAIN pruner.db
    /\ k \in DOMAIN pruner.before => pruner.db[k] = pruner.before[k]

OtherKeys == {k \in DOMAIN pruner.before \cup DOMAIN pruner.db : k.shape = "other"}

\* C20 as stated: no entry of another shape changes at all.
C20_OthersUntouched ==
    (pruner.on /\ pruner.pc = "done") => LiveKept /\ StaleGone /\ \A k \in OtherKeys : SameEntry(k)

C20_Conservation ==
    (pruner.on /\ pruner.pc = "done") =>
        LiveKept /\ StaleGone /\ \A k \in OtherKeys \ SnapshotKeys : SameEntry(k)

\* A completed pruning that deleted a stale entry, kept a stale entry by a
\* false positive, and kept a genesis node and a code of the target.
C20_Witness ==
    /\ pruner.on /\ pruner.pc = "done"
    /\ \E k \in DOMAIN pruner.before : k.shape # "other" /\ k \notin DOMAIN pruner.db
    /\ \E k \in DOMAIN pruner.db :
          /\ k.id \in pruner.fp
          /\ k \notin LiveKeys(pruner.target) \cup LiveKeys(pruner.genesis)
    /\ \E k \in LiveKeys(pruner.genesis) \ LiveKeys(pruner.target) : k \in DOMAIN pruner.db
    /\ \E k \in LiveKeys(pruner.target) : IsCodeKey(k) /\ k \in DOMAIN pruner.db
    /\ GenesisKey \in DOMAIN pruner.db

(***************************************************************************)
(* Interrupted pruning: claims.                                            *)
(***************************************************************************)
\* What the sweep of an uninterrupted run leaves of the store it started on.
SweptStore(p) ==
    LET filter == LiveHashes(p.target) \cup LiveHashes(p.genesis) \cup p.fp
    IN [k \in {x \in DOMAIN p.before : ~((IsHashKey(x) \/ IsCodeKey(x)) /\ x.id \notin filter)}
          |-> p.before[k]]

\* Entries of the store the run started on that are gone.
DeletedKeys(p) == DOMAIN p.before \ DOMAIN p.db

\* The store an uninterrupted Prune ends with: the swept store, with the
\* snapshot flattened onto the target and its journal.
Uninterrupted(p) ==
    Merge([k \in DOMAIN SweptStore(p) \ SnapshotKeys |-> SweptStore(p)[k]],
          MapOf(SnapshotEntries(p.target, PruneRoot(p.target))))

\* The entries of a store under hash keys and code keys.
NodesAndCodes(db) == [k \in {x \in DOMAIN db : IsHashKey(x) \/ IsCodeKey(x)} |-> db[k]]

C22_DeletesUnderFilterFile ==
    [][/\ (pruner.on /\ DOMAIN pruner.db \ DOMAIN pruner'.db # {}) => (pruner.file /\ pruner'.file)
       /\ (pruner'.on /\ DeletedKeys(pruner') # {} /\ pruner'.pc # "done") => pruner'.file]_vars

\* The process was stopped after some stale entry was deleted and before
\* the sweep reached every stale entry; the file is there.
C22_Witness ==
    /\ pruner.on /\ pruner.pc = "idle" /\ pruner.crashes > 0 /\ pruner.file
    /\ \E k \in DeletedKeys(pruner) : IsHashKey(k) \/ IsCodeKey(k)
    /\ \E k \in DOMAIN pruner.db : Swept([pruner EXCEPT !.bloom = pruner.saved], k)

(***************************************************************************)
(* Boot: claims.                                                           *)
(***************************************************************************)
\* The journal of the store is one this release loads: present, of its
\* version and written over the root the account trie has in the store.
JournalMatches(db) ==
    /\ db.journal.present
    /\ db.journal.version = journalVersion
    /\ db.journal.diskRoot = DiskRoot(db)

\* C23: a boot over a store whose journal is missing, of another version or
\* written over another disk root ends with a single disk layer that has the
\* root of the store and the persistent state id, and with an empty buffer;
\* a boot that ends with diff layers or a filled buffer had a matching journal.
C23_DiscardedJournal ==
    [][(status = "closed" /\ status' = "running") =>
         /\ ~JournalMatches(diskdb) =>
              /\ layers' = [r \in Refs |-> IF r = 1 THEN newDiskLayer(DiskRoot(diskdb),
                                                                     ReadPersistentStateID(diskdb))
                                           ELSE FreeLayer]
              /\ disk' = 1
              /\ buffer' = newNodeBuffer(EmptyMap, 0)
         /\ (\E r \in Refs : layers'[r].kind = "diff") \/ buffer'.layers > 0 \/ buffer'.nodes # EmptyMap
              => JournalMatches(diskdb)]_vars

\* A process booted over a journal of two diff layers that was written over
\* another disk root: it has no diff layer.
C23_Witness ==
    /\ status = "running" /\ obs.op = "boot"
    /\ obs.err = "layer journal is not matched with disk layer"
    /\ Len(diskdb.journal.diffs) = 2
    /\ \A r \in Refs : layers[r].kind # "diff"

(***************************************************************************)
(* Refused reverts: claims.                                                *)
(***************************************************************************)
\* The step is a call of revert on the disk layer; obs' holds the root of
\* the history handed in and the accounts it lists as incomplete.
RevertCalled == status = "running" /\ obs'.op = "revert"

\* The disk layer is the live one it was, the buffer and the store are as
\* they were.
RevertLeftAlone ==
    /\ layers' = layers /\ disk' = disk /\ ~layers'[disk].stale
    /\ buffer' = buffer /\ diskdb' = diskdb /\ freezer' = freezer

\* C24 as stated: revert on a disk layer of state id 0 returns
\* errStateUnrecoverable, revert with a history of another root returns an
\* error, and both leave the layer live and the buffer and the store alone.
C24_ZeroIdUnrecoverable ==
    [][(RevertCalled /\ obs'.incomplete = {}) =>
         /\ layers[disk].id = 0 => (lastErr' = errStateUnrecoverable /\ RevertLeftAlone)
         /\ obs'.root # layers[disk].root => (lastErr' # "" /\ RevertLeftAlone)]_vars

\* C24: revert with a history of another root returns an error, revert with
\* a history of the layer's root on a disk layer of state id 0 returns
\* errStateUnrecoverable, and both leave the layer live and the buffer and
\* the store alone.
C24_RevertRefused ==
    [][(RevertCalled /\ obs'.incomplete = {}) =>
         /\ (layers[disk].id = 0 /\ obs'.root = layers[disk].root)
               => (lastErr' = errStateUnrecoverable /\ RevertLeftAlone)
         /\ obs'.root # layers[disk].root => (lastErr' # "" /\ RevertLeftAlone)]_vars

\* revert has refused a history of the layer's own root because the layer
\* has state id 0, above a diff layer that is still in the tree.
C24_Witness ==
    /\ status = "running" /\ obs.op = "revert" /\ obs.incomplete = {}
    /\ layers[disk].id = 0 /\ obs.root = layers[disk].root /\ ~layers[disk].stale
    /\ lastErr = errStateUnrecoverable
    /\ NumDiffs > 0

\* C25: revert with a history that lists incomplete accounts returns an
\* error and leaves the disk layer live and the buffer and the store alone.
C25_IncompleteRefused ==
    [][(RevertCalled /\ obs'.incomplete # {}) => (lastErr' # "" /\ RevertLeftAlone)]_vars

\* revert has refused the history of the disk layer's own last transition
\* because it lists an account as incomplete.
C25_Witness ==
    /\ status = "running" /\ obs.op = "revert" /\ obs.incomplete # {}
    /\ obs.root = layers[disk].root /\ layers[disk].id > 0 /\ ~layers[disk].stale
    /\ readHistory(freezer, layers[disk].id).err = ""
    /\ lastErr = "incomplete state history"

(***************************************************************************)
(* The buffer of a stale disk layer.                                       *)
(***************************************************************************)
\* Every disk layer refers to the one buffer object: commit and revert hand
\* the buffer of the layer they mark stale to the layer they return.
StaleLayers == {r \in Refs : layers[r].kind = "disk" /\ layers[r].stale}

\* C26: once a disk layer is marked stale, no step of a later commit, revert
\* or flush (a step of another operation than the one that marked it)
\* changes the buffer object that layer refers to.
C26_StaleBufferFrozen ==
    [][(status = "running" /\ conc.on
          /\ \E r \in StaleLayers : conc.writer.pc = "idle" \/ r # conc.writer.dl)
         => buffer' = buffer]_vars

\* C27 (as claimed): every stop request gets a reply: once the driver has
\* sent its request, the reply arrives.
C27_StopReplied == (TaskOn /\ gen.req = "sent") ~> (gen.req = "replied")

\* The request that is lost: the task received it at a flush point whose
\* write failed, and now waits for a request again.
C27_RequestLost == TaskOn /\ gen.req = "taken" /\ gen.pc = "erred"

\* A request has at most one reply; the reply is the stats exactly when the
\* generation is incomplete in the store and nil exactly when it is done.
C27_ReplyValue ==
    (TaskOn /\ gen.req = "replied") =>
        /\ gen.replies = 1
        /\ gen.reply = IF gen.stored.done THEN "nil" ELSE "stats"

\* After its reply the task writes nothing.
C27_SilentAfterReply ==
    [][(TaskOn /\ gen.pc = "exited" /\ gen'.pc = "exited") => (gen'.writes = gen.writes /\ gen'.stored = gen.stored)]_vars

\* The trie nodes, the flat states, the persistent state id and the snapshot
\* root of the store: what a flush and the batch of a revert write.
StateOf(db) == <<db.nodes, db.accounts, db.storages, db.pid, db.snapRoot>>

Linking == conc.on /\ gen.on /\ status = "running" /\ "tasks" \in DOMAIN gen

\* The rules of the task for one step, where written says whether the step
\* wrote what the generator has to be stopped for.
TaskRules(written) ==
    Linking =>
        /\ gen'.tasks <= 1
        /\ written => (gen.tasks = 0 /\ gen'.tasks = 0)
        /\ gen'.tasks > gen.tasks =>
              /\ conc.writer.pc \in {"written", "rwritten"}
              /\ ~genMarker(Mem).nil
              /\ gen'.root = IF conc.writer.op = "commit" THEN layers[conc.writer.bottom].root
                             ELSE conc.writer.h.parent
        /\ (conc.writer.pc = "merged" /\ conc'.writer.pc = "flushed") => gen' = gen
        /\ (conc.writer.pc = "flushed" /\ ~conc.writer.force) => (gen' = gen /\ generator' = generator)

\* C28 (as claimed): at most one generator task runs; commit and revert stop
\* it before any write to the store, start it on the successor's root only
\* after the write and only when the generation is incomplete, and a commit
\* without a flush hands the same task over.
C28_StoppedBeforeStoreWrite == [][TaskRules(conc.writer.pc # "idle" /\ diskdb' # diskdb)]_vars

\* C28 (amended): the same, where the writes the generator is stopped for
\* are the flush of a commit and the batch of a revert; the root -> id
\* lookups of a commit are written before the stop.
C28_OneTask == [][TaskRules(StateOf(diskdb') # StateOf(diskdb))]_vars

\* A commit has flushed under an incomplete generation: the task was stopped
\* and runs again on the root of the flattened layer.
C28_Witness ==
    /\ Linking /\ conc.writer.pc = "flushed" /\ conc.writer.op = "commit" /\ conc.writer.force
    /\ gen.tasks = 1 /\ gen.root = layers[conc.writer.bottom].root /\ gen.root # generator.root

\* The range proof of the segment failed.
RangeOutdated ==
    LET result == proveRange(<< >>, RangeRows(gen.flat, gen.origin), gen.flat, gen.trie, gen.origin, gen.max)
    IN result.err = "" /\ ~result.valid

\* The flat keys of the segment: the first max rows from origin on.
SegmentKeys ==
    LET rows == RangeRows(gen.flat, gen.origin)
    IN {rows[i] : i \in 1..(IF Len(rows) > gen.max THEN gen.max ELSE Len(rows))}

\* The trie keys from origin up to the last flat key of the segment; a
\* segment without a flat key has no last key and bounds nothing.
SegmentTrieKeys ==
    {k \in DOMAIN gen.trie :
        /\ gen.origin.nil \/ BytesCompare(k, gen.origin.key) >= 0
        /\ \A f \in SegmentKeys : BytesCompare(k, f) <= 0 \/ \E g \in SegmentKeys : BytesCompare(f, g) < 0}

\* C29: after a failed range proof the callbacks come in ascending key
\* order, exactly one for every key of the segment's flat keys and of the
\* trie keys from origin up to the last flat key: a deletion for a key only
\* in the flat table, write = true with the trie's value for a key only in
\* the trie or with a different value, write = false for a key with the same
\* value; once they are applied the table holds over these keys what the
\* trie holds.
C29_Regenerated ==
    (RangeOn /\ gen.pc = "called" /\ RangeOutdated) =>
        /\ \A i \in 1..Len(gen.calls), j \in 1..Len(gen.calls) :
              i < j => BytesCompare(gen.calls[i].key, gen.calls[j].key) < 0
        /\ {gen.calls[i].key : i \in 1..Len(gen.calls)} = SegmentKeys \cup SegmentTrieKeys
        /\ \A i \in 1..Len(gen.calls) :
              LET c == gen.calls[i]
              IN /\ c.delete <=> c.key \notin SegmentTrieKeys
                 /\ c.delete => ~c.write /\ c.val = NoValue
                 /\ ~c.delete => c.val = gen.trie[c.key]
                 /\ c.write <=> /\ c.key \in SegmentTrieKeys
                                /\ c.key \notin SegmentKeys \/ gen.flat[c.key] # gen.trie[c.key]
        /\ gen.left = << >> =>
              /\ \A k \in SegmentKeys \cup SegmentTrieKeys : Lookup(gen.table, k) = Lookup(gen.trie, k)
              /\ \A k \in RangeKeys \ (SegmentKeys \cup SegmentTrieKeys) :
                    Lookup(gen.table, k) = Lookup(gen.flat, k)

\* A regenerated segment with a deletion, an update, a creation and all of
\* them applied.
C29_Witness ==
    /\ RangeOn /\ gen.pc = "called" /\ RangeOutdated /\ gen.left = << >>
    /\ \E i \in 1..Len(gen.calls) : gen.calls[i].delete
    /\ \E i \in 1..Len(gen.calls) : gen.calls[i].write /\ gen.calls[i].key \in DOMAIN gen.flat
    /\ \E i \in 1..Len(gen.calls) : gen.calls[i].write /\ gen.calls[i].key \notin DOMAIN gen.flat

Applied == obs # NoObs /\ obs.op = "apply"

\* An account the pre-images list as absent before the transition.
ToDelete(h) == h \in DOMAIN obs.accounts /\ obs.accounts[h] = << >>

ToUpdate(h) == h \in DOMAIN obs.accounts /\ obs.accounts[h] # << >>

\* The value of a slot of the post-state, read from the flat table.
PostSlot(h, s) == SlotValue(Lookup(diskdb.storages, h \o SlotHash(s)))

\* The slots of an account once its recorded pre-images are written back.
PrevSlots(h) ==
    [s \in Slots |-> IF h \o SlotHash(s) \in DOMAIN obs.storages THEN SlotValue(obs.storages[h \o SlotHash(s)])
                     ELSE PostSlot(h, s)]

\* The state once every listed account and its recorded slots are written back.
PrevWorld ==
    [bal |-> [a \in Addrs |-> IF AddrHash(a) \in DOMAIN obs.accounts
                              THEN (IF obs.accounts[AddrHash(a)] = << >> THEN 0 ELSE obs.accounts[AddrHash(a)][1])
                              ELSE IF Lookup(diskdb.accounts, AddrHash(a)) = << >> THEN 0
                              ELSE Lookup(diskdb.accounts, AddrHash(a))[1]],
     slot |-> [k \in Addrs \X Slots |-> IF AddrHash(k[1]) \in DOMAIN obs.accounts
                                        THEN PrevSlots(AddrHash(k[1]))[k[2]]
                                        ELSE PostSlot(AddrHash(k[1]), k[2])]]

AbsentInPost == \E h \in DOMAIN obs.accounts : ToDelete(h) /\ Lookup(diskdb.accounts, h) = << >>

SlotNotDeleted ==
    \E h \in DOMAIN obs.accounts :
        ToDelete(h) /\ \E s \in Slots : h \o SlotHash(s) \in DOMAIN obs.storages /\ obs.storages[h \o SlotHash(s)] # << >>

StorageNotCleared == \E h \in DOMAIN obs.accounts : ToDelete(h) /\ \E s \in Slots : PrevSlots(h)[s] # 0

StorageRootDiffers ==
    \E h \in DOMAIN obs.accounts :
        ToUpdate(h) /\ RootOfBlob(BlobOfSlots(PrevSlots(h))) # AccountRoot(FullAccount(obs.accounts[h]))

RootDiffers == StateRoot(PrevWorld) # obs.prevRoot

\* C30: Apply returns an error and no nodes when the root after all the
\* pre-images are applied is not prevRoot, when an account with an empty
\* pre-image is absent from the post-state, has a recorded slot pre-image
\* that is not empty or keeps storage after its recorded slots are deleted,
\* and when the storage root of an updated account is not the root of its
\* pre-image.
C30_ApplyFails ==
    (Applied /\ (RootDiffers \/ AbsentInPost \/ SlotNotDeleted \/ StorageNotCleared \/ StorageRootDiffers)) =>
        (obs.res.err # "" /\ obs.res.nodes = EmptyMap)

\* Every account is reverted without an error and only the root is wrong.
C30_Witness ==
    /\ Applied /\ obs.accounts # EmptyMap /\ obs.storages # EmptyMap
    /\ RootDiffers /\ ~AbsentInPost /\ ~SlotNotDeleted /\ ~StorageNotCleared /\ ~StorageRootDiffers
    /\ obs.res.err # ""

\* Every account listed has, as its pre-image, the value the post-state holds.
NothingToWrite == \A h \in DOMAIN obs.accounts : obs.accounts[h] = Lookup(diskdb.accounts, h)

\* When none of these holds Apply returns no error; it returns the nodes when
\* some account changes, and panics when none does.
ApplySucceeds ==
    (Applied /\ ~(RootDiffers \/ AbsentInPost \/ SlotNotDeleted \/ StorageNotCleared \/ StorageRootDiffers)) =>
        /\ obs.res.err = ""
        /\ obs.res.panic <=> NothingToWrite
        /\ status = IF NothingToWrite THEN "panic" ELSE "running"

BufReverted == obs # NoObs /\ obs.op = "revert"

\* The reverted node set has an entry the buffer does not hold.
RevertsUnknown == \E k \in DOMAIN obs.nodes : k \notin DOMAIN obs.before.nodes

C31_AcceptedOnReset ==
    /\ BufReverted /\ obs.before.layers = 1 /\ RevertsUnknown
    /\ ~obs.panic /\ obs.err = "" /\ status = "running" /\ buffer = reset(obs.before)

\* What holds: the panic is there when more than one transition is in the
\* buffer, and no revert inserts an entry.
RevertPanicsAboveOne ==
    BufReverted =>
        /\ (obs.before.layers > 1 /\ RevertsUnknown) => obs.panic
        /\ DOMAIN buffer.nodes \subseteq DOMAIN obs.before.nodes

HistoryHead(fr) == fr.tail + Len(fr.items)

\* A step in which histories were written and the operation succeeded: a
\* commit, alone or as part of a persist.
Committed ==
    /\ status = "running" /\ status' = "running" /\ lastErr' = ""
    /\ freezer.enabled /\ HistoryHead(freezer') > HistoryHead(freezer)

\* C32: with a limit L other than zero, after every successful commit at
\* most L histories are in the freezer, and the histories the commit removed
\* from the tail are older than the newest L.
C32_HistoryWindow ==
    [][(Committed /\ freezer.limit # 0) =>
          /\ HistoryHead(freezer') - freezer'.tail <= freezer.limit
          /\ \A id \in (freezer.tail + 1)..freezer'.tail : id <= HistoryHead(freezer') - freezer.limit]_vars

\* A commit has moved the tail: the freezer holds the newest L histories.
C32_Witness ==
    /\ status = "running" /\ lastErr = "" /\ freezer.enabled /\ freezer.limit # 0
    /\ freezer.tail > 0 /\ Len(freezer.items) = freezer.limit
    /\ layers[disk].id = HistoryHead(freezer)

\* C33: after every successful commit the tail of the freezer is not above
\* the persistent state id: the commit that moves the tail above it flushes
\* the buffer first, asked to or not.
C33_TailBelowPersisted ==
    [][Committed => freezer'.tail <= ReadPersistentStateID(diskdb')]_vars

\* The tail has moved and the state of the newest history is in the store.
C33_Witness ==
    /\ status = "running" /\ lastErr = "" /\ freezer.enabled /\ freezer.limit # 0
    /\ freezer.tail > 0 /\ ReadPersistentStateID(diskdb) = HistoryHead(freezer) /\ empty(buffer)
    /\ layers[disk].id = ReadPersistentStateID(diskdb)


(***************************************************************************)
(* C34.  The parent pointer of a diff layer is written only while the      *)
(* driver holds that layer's write lock and no reader holds its read lock, *)
(* and it is written to the new disk layer, linked and not stale.  A       *)
(* reader that has left a diff layer for its parent goes to the parent     *)
(* that layer has: the one it read under the read lock it still holds.     *)
(***************************************************************************)
\* This step writes the parent pointer of the diff layer x.
ParentWritten(x) ==
    /\ layers[x].kind = "diff" /\ layers'[x].kind = "diff"
    /\ layers'[x].parent # layers[x].parent

\* The reader t is between a diff layer and the call on that layer's parent.
Descending(t) == conc.on /\ conc.readers[t].pc = "walk"

C34_ParentUnderLock ==
    /\ [](\A t \in Threads :
            Descending(t) =>
                \E x \in conc.readers[t].held :
                    layers[x].kind = "diff" /\ layers[x].parent = conc.readers[t].at)
    /\ [][\A x \in Refs :
            ParentWritten(x) =>
                /\ WriteLocked(conc, x) /\ ~ReadHeld(conc, x)
                /\ layers'[x].parent = disk'
                /\ layers'[disk'].kind = "disk" /\ ~layers'[disk'].stale]_vars

\* The driver holds the write lock of a layer and is about to replace its
\* parent, while a reader is inside the layer being flattened below it.
C34_Witness ==
    /\ conc.on /\ conc.writer.pc = "merged" /\ conc.writer.child # NoRef
    /\ layers[conc.writer.child].parent = conc.writer.bottom
    /\ \E t \in Threads : conc.writer.bottom \in conc.readers[t].held


(***************************************************************************)
(* C35.  Readers beside one persist or revert never deadlock: a reader     *)
(* that waits for the read lock of a layer gets it, the driver that waits  *)
(* for the write lock of a child or of the disk layer gets it, and every   *)
(* read and every persist or revert returns.                               *)
(***************************************************************************)
C35_LocksGranted ==
    /\ \A t \in Threads : \A x \in LockRefs :
          (conc.readers[t].pc = "rlock" /\ conc.readers[t].at = x)
              ~> (conc.readers[t].pc # "idle" /\ conc.readers[t].held # << >>
                  /\ conc.readers[t].held[Len(conc.readers[t].held)] = x)
    /\ \A x \in LockRefs :
          (conc.writer.pc = "locking" /\ conc.writer.dl = x) ~> conc.mu[x].w
    /\ \A x \in LockRefs :
          (conc.writer.pc = "staling" /\ conc.writer.target = x) ~> conc.stale[x]
    /\ \A t \in Threads : (conc.readers[t].pc # "idle") ~> (conc.readers[t].pc = "idle")
    /\ (conc.writer.pc # "idle") ~> (conc.writer.pc = "idle")

\* A reader waits for the layer the driver has locked while the driver
\* waits for a reader to leave the disk layer.
C35_Witness ==
    /\ LockOn
    /\ conc.writer.pc = "staling" /\ conc.mu[conc.writer.target].r # {}
    /\ \E t \in Threads : conc.readers[t].pc = "rlock" /\ conc.mu[conc.readers[t].at].w


(***************************************************************************)
(* C36.  Flattening is transparent to reads: what is read through the disk *)
(* layer a commit returns, for every node key and every account and slot   *)
(* key, is what was read through the flattened diff layer just before,     *)
(* whether or not the commit flushed the buffer.                           *)
(***************************************************************************)
\* The memory after the step.
MemAfter == [layers |-> layers', buffer |-> buffer', diskdb |-> diskdb', freezer |-> freezer',
             generator |-> generator', trail |-> trail']

\* This step flattens the chain that ends in the diff layer b: the disk layer
\* it returns carries the root and the state id of b.
Flattened(b) ==
    /\ status = "running" /\ status' = "running" /\ lastErr' = ""
    /\ layers[b].kind = "diff" /\ InTree(b)
    /\ disk' # disk /\ layers'[disk'].kind = "disk"
    /\ layers'[disk'].root = layers[b].root /\ layers'[disk'].id = layers[b].id

\* This step wrote the buffer to the store.
Flushed == diskdb'.pid # diskdb.pid

SameNodes(b) ==
    \A k \in NodeKeys :
        /\ node(MemAfter, disk', k).blob = node(Mem, b, k).blob
        /\ node(MemAfter, disk', k).err = node(Mem, b, k).err

SameStates(b) ==
    /\ \A a \in Addrs : account(MemAfter, disk', AddrHash(a)) = account(Mem, b, AddrHash(a))
    /\ \A a \in Addrs, s \in Slots :
          storage(MemAfter, disk', StorageKey(a, s)) = storage(Mem, b, StorageKey(a, s))

C36_FlattenTransparent ==
    [][\A b \in Refs : Flattened(b) => SameNodes(b) /\ SameStates(b)]_vars

\* The flat read after the step answers as the one before it, or the step
\* flushed the buffer while the snapshot is being generated and the key lies
\* beyond the marker: the disk layer then answers that the key is not covered.
SameOrNotCovered(after, before, key) ==
    \/ after = before
    \/ /\ Flushed /\ ~genMarker(MemAfter).nil
       /\ BytesCompare(key, genMarker(MemAfter).key) > 0
       /\ after = [blob |-> << >>, err |-> errNotCoveredYet]

\* C36, as the code has it: the node reads are the same; the account and
\* slot reads are the same, except that after a flush under a running
\* generation the keys beyond the marker are not covered yet.
C36_TransparentUpToMarker ==
    [][\A b \in Refs :
          Flattened(b) =>
              /\ SameNodes(b)
              /\ \A a \in Addrs :
                    SameOrNotCovered(account(MemAfter, disk', AddrHash(a)), account(Mem, b, AddrHash(a)),
                                     AddrHash(a))
              /\ \A a \in Addrs, sl \in Slots :
                    SameOrNotCovered(storage(MemAfter, disk', StorageKey(a, sl)),
                                     storage(Mem, b, StorageKey(a, sl)), StorageKey(a, sl))]_vars

\* A commit has flushed under a running generation: an account whose trie
\* node is in the store is not covered by the flat table yet.
C36_Witness ==
    /\ generator.linked /\ ~genMarker(Mem).nil
    /\ layers[disk].id > 0 /\ diskdb.pid = layers[disk].id /\ buffer.layers = 0
    /\ \E a \in Addrs :
          /\ ReadTrieNode(diskdb, AccountLeafKey(a)) # << >>
          /\ account(Mem, disk, AddrHash(a)).err = errNotCoveredYet


(***************************************************************************)
(* C37.  After any sequence of commit, revert, flush and reset the size of *)
(* the node buffer is the sum, over the nodes it holds, of the length of   *)
(* the blob and the length of the path; a buffer of no layers holds no     *)
(* node.                                                                   *)
(***************************************************************************)
\* The bytes the nodes of the buffer b take.
NodeBytes(b) == Sum([k \in DOMAIN b.nodes |-> Len(b.nodes[k].blob) + Len(k[2])], DOMAIN b.nodes)

C37_SizeAccounted ==
    status = "running" =>
        /\ buffer.size = NodeBytes(buffer)
        /\ buffer.layers = 0 => DOMAIN buffer.nodes = {}

\* A revert has put shorter blobs back into a buffer that keeps a layer.
C37_Witness ==
    /\ status = "running" /\ obs.op = "revert" /\ obs.err = "" /\ ~obs.panic
    /\ buffer.layers >= 1 /\ DOMAIN buffer.nodes # {}
    /\ buffer.size < obs.before.size


(***************************************************************************)
(* C38.  A generation that is no longer stopped and finds its tries        *)
(* completes: every further segment starts at a key strictly greater than  *)
(* the one before, the account loop ends only when neither the flat table  *)
(* nor the trie has an entry beyond the last one handled, and at the end   *)
(* the marker is stored as nil with the generation marked done.            *)
(***************************************************************************)
\* The origin o2 lies strictly beyond the origin o1 (nil: the first key).
Beyond(o2, o1) == ~o2.nil /\ (o1.nil \/ BytesCompare(o2.key, o1.key) > 0)

\* This step goes from one segment of accounts to the next.
NextAccountSegment == gen.on /\ gen.pc = "account" /\ gen'.pc = "accounts"

\* This step goes from one segment of slots to the next.
NextStorageSegment == gen.on /\ gen.pc = "slot" /\ gen'.pc = "storages"

\* This step ends the account loop.
AccountLoopEnds == gen.on /\ gen.pc = "account" /\ gen'.pc = "done"

\* Keys of the flat table or of the trie beyond the last key of the segment.
AccountsLeft ==
    {k \in DOMAIN diskdb.accounts \cup DOMAIN AccountTrie(gen.w) :
        /\ gen.origin.nil \/ BytesCompare(k, gen.origin.key) >= 0
        /\ gen.last.nil \/ BytesCompare(k, gen.last.key) > 0}

C38_GenerationCompletes ==
    /\ (gen.on /\ gen.pc # "failed") ~> (gen.pc = "done" \/ gen.pc = "failed")
    /\ [](gen.on /\ gen.pc = "done" => gen.stored.done /\ gen.stored.marker = << >>)
    /\ [][/\ NextAccountSegment => Beyond(gen'.origin, gen.origin)
          /\ NextStorageSegment => Beyond(gen'.sorigin, gen.sorigin)
          /\ AccountLoopEnds => AccountsLeft = {} \/ increaseKey(gen.last.key).nil]_vars

\* A generation that was stopped on the way has been resumed and is done.
C38_Witness ==
    /\ gen.on /\ gen.pc = "done" /\ gen.stored.done
    /\ gen.aborts > 0 /\ DOMAIN diskdb.storages # {}


(***************************************************************************)
(* C39.  Opening the metadata file of a freezer table gives what was       *)
(* written last: version 2 with the virtual tail and the index flush       *)
(* offset set last; a legacy file opens with its tail and offset 0 and is  *)
(* rewritten in the layout of version 2; an empty file opens as version 2  *)
(* with both values 0.                                                     *)
(***************************************************************************)
\* The file of h holds the version 2 encoding of the values set last.
MetaStored(h) ==
    /\ ~decodeV2(h.file).nil
    /\ decodeV2(h.file).virtualTail = h.tail
    /\ decodeV2(h.file).indexFlushOffset = h.offset

\* The metadata in memory is that of version 2 with the values set last.
MetaLoaded(h) ==
    h.m = [nil |-> FALSE, version |-> freezerTableV2, virtualTail |-> h.tail, indexFlushOffset |-> h.offset]

C39_OpenYieldsLast ==
    MetaOn => hist.err = "" /\ (hist.open => MetaLoaded(hist) /\ MetaStored(hist))

\* The part that holds: an empty or a legacy file opens as the claim says,
\* and a call that does not make the encoding shorter leaves a file that
\* holds what was set.
C39_FirstOpenAndGrowth ==
    [][MetaOn =>
          /\ ~hist.open /\ hist.opens = 0 /\ hist' # hist => hist'.open /\ MetaLoaded(hist') /\ MetaStored(hist')
          /\ hist.open /\ hist'.open /\ MetaStored(hist) /\ Len(hist'.file) > Len(hist.file)
                => MetaLoaded(hist') /\ MetaStored(hist')]_vars

\* The file was written, closed and cannot be opened again.
C39_Unopenable == MetaOn /\ hist.err # "" /\ hist.opens = 2


(***************************************************************************)
(* C40.  In the reader that asks the snapshot and then the trie, the       *)
(* storage root cached for an address is the storage root the account has  *)
(* in the state of the reader, the empty root exactly when the account     *)
(* does not exist; a storage trie is never opened at another root, also    *)
(* not after an account lookup that failed.                                *)
(***************************************************************************)
\* The storage root of the accounts in the state of the reader.
TrueRoot == IF reader.truth.nil THEN EmptyRootHash ELSE reader.truth.root

MerkleOn == reader.open /\ "truth" \in DOMAIN reader

C40_CachedRootIsStateRoot ==
    MerkleOn =>
        /\ \A a \in DOMAIN reader.storageRoots : reader.storageRoots[a] = TrueRoot
        /\ \A a \in reader.storageTries : reader.storageRoots[a] = TrueRoot

\* A storage read went to the storage trie of an account whose lookup had
\* failed: the trie was opened at the empty root, which is not the root of
\* the account.
C40_OpenedAtWrongRoot ==
    /\ MerkleOn
    /\ obs.op = "Storage" /\ obs.kind = "merkle" /\ obs.err = ""
    /\ obs.addr \in reader.storageTries /\ obs.addr \notin obs.before.storageTries
    /\ reader.trieAccount.err # ""
    /\ reader.storageRoots[obs.addr] = EmptyRootHash /\ TrueRoot # EmptyRootHash

\* The reader of the later revision caches a root only for an account it has
\* resolved: its cached roots are those of the state.
C40_TrieReaderRoots ==
    MerkleOn =>
        /\ \A a \in DOMAIN reader.subRoots : reader.subRoots[a] = TrueRoot
        /\ \A a \in reader.subTries : a \in DOMAIN reader.subRoots

====
